---------------------------- MODULE Spec2Model ----------------------------
(***************************************************************************)
(* CheckMate backend: authentication and session-security core.           *)
(*                                                                         *)
(* The shared store (MongoDB collections users, sessions, tokenblacklists, *)
(* twofactors, webauthncredentials, webauthnchallenges) is the state; the  *)
(* request handlers are the actions.  Time is a clock of abstract          *)
(* instants, one instant being one minute; two reads of the clock at the   *)
(* same instant return the same value.                                     *)
(***************************************************************************)
EXTENDS Integers, Sequences, FiniteSets, TLC

VARIABLES
    now,          \* Date.now(), in minutes
    users,        \* users collection: userId -> document
    sessions,     \* sessions collection: set of documents (token is unique)
    blacklist,    \* tokenblacklists collection: set of documents (token unique)
    issued,       \* every token jwt.sign has returned so far (held by clients)
    twoFactor,    \* twofactors collection: userId -> document or NoDoc
    codeSeq,      \* number of backup codes drawn from crypto.randomBytes so far
    credentials,  \* webauthncredentials collection: credentialId -> document
    challenges,   \* webauthnchallenges collection: set of documents
    chalSeq,      \* number of challenges drawn by the WebAuthn library so far
    reqs,         \* requests in flight (concurrent specifications): id -> frame
    env,          \* process.env: which secrets are configured
    resp,         \* the response of the last completed request
    hist          \* observations of the run used to state the properties

vars == <<now, users, sessions, blacklist, issued, twoFactor, codeSeq,
          credentials, challenges, chalSeq, reqs, env, resp, hist>>

-----------------------------------------------------------------------------
(* Program constants (minutes where they are durations).                   *)

AccessTTL == 1440
RefreshTTL == 10080
SessionTTL == 1440
BlacklistDefaultTTL == 1440
MaxSessionsPerUser == 3
MaxAttempts == 5
LockTime == 30
OtpTTL == 10
OtpMaxAttempts == 5
ChallengeTTL == 5

(* Bounds of the model.                                                    *)

MaxTick == 2           \* the clock takes the instants 0..MaxTick ...
FarTicks == 0          \* ... and SessionTTL..SessionTTL+FarTicks (a day later)
MaxIssued == 4         \* tokens minted in one run
CapMaxTick == 4        \* the clock of the session-cap specification stops here
CapMaxIssued == 8      \* tokens minted in one run of the session-cap specification
BackupCount == 2       \* backup codes per generation (the code's count is 10)
TfPeriods == 2         \* the two-factor clock takes k*OtpTTL and k*OtpTTL+1, k in 0..TfPeriods
LgSteps == 5           \* the login clock takes k*LgStep, k in 0..LgSteps
LgMaxIssued == 4       \* tokens minted in one run of the login specification
RbMaxTick == 1         \* the clock of the concurrent-redemption specification stops here
RbMaxIssued == 6       \* tokens minted in one run of the concurrent-redemption specification
WaPeriods == 1         \* the WebAuthn clock takes k*ChallengeTTL and k*ChallengeTTL+1, k in 0..WaPeriods
WaMaxIssued == 4       \* tokens minted in one run of the WebAuthn specification
WaMaxChallenges == 2   \* challenges issued in one run
WaMaxCounter == 1      \* signature counters an assertion carries: 0..WaMaxCounter
RfMaxTick == 1         \* the refresh clock takes 0..RfMaxTick and SessionTTL
RfMaxIssued == 5       \* tokens minted in one run of the refresh specification
BlMaxTick == 1         \* the clock of the blacklist specification stops here
FcMaxTick == 1         \* the clock of the forced-logout specification stops here, or at expiry
FcMaxIssued == 6       \* tokens minted in one run of the forced-logout specification
RcMaxTick == 4         \* the clock of the concurrent-login specification stops here
RcMaxIssued == 10      \* tokens minted in one run of the concurrent-login specification
RoMaxTick == 1         \* the clock of the concurrent one-time-password specification stops here
RoMaxIssued == 4       \* tokens minted in one run of the concurrent one-time-password specification
KyMaxTick == 1         \* the clock of the signing-key specification takes 0..KyMaxTick and AccessTTL
KyMaxIssued == 4       \* tokens minted in one run of the signing-key specification
RgPeriods == 1         \* the registration clock takes k*ChallengeTTL and k*ChallengeTTL+1, k in 0..RgPeriods
RgMaxIssued == 4       \* tokens minted in one run of the registration specification
RgMaxChallenges == 2   \* registration challenges issued in one run
RxMaxTick == 0         \* the refresh-refusal clock takes 0..RxMaxTick, SessionTTL and RefreshTTL
RxMaxIssued == 4       \* tokens minted in one run of the refresh-refusal specification
LkMaxIssued == 4       \* tokens minted in one run of the concurrent-lockout specification
LkSteps == 2           \* the concurrent-lockout clock takes k*LockTime + k, k in 0..LkSteps
PbMaxTick == 1         \* the public-endpoints clock takes 0..PbMaxTick
LoMaxTick == 1         \* the logout clock takes 0, LoMaxTick and AccessTTL
LoMaxIssued == 4       \* tokens minted in one run of the logout specification
TfMaxIssued == 4       \* tokens minted in one run of the two-factor specification
MaxDrawn == 6          \* backup codes drawn in one run (at most MaxCodes - 1)

-----------------------------------------------------------------------------
(* Identities.                                                             *)

UserIds == {"u1", "u2"}
NoUser == "nobody"
Emails == {"u1@x.com", "u2@x.com", "ghost@x.com"}

\* User.findOne({ email })
findUserByEmail(email) ==
    CASE email = "u1@x.com" -> "u1"
      [] email = "u2@x.com" -> "u2"
      [] OTHER -> NoUser

NoDate == -1

\* bcrypt.hash / bcrypt.compare
bcryptHash(pw) == <<"bcrypt", pw>>
Passwords == {"correct", "wrong"}

matchPassword(user, enteredPassword) == user.password = bcryptHash(enteredPassword)

-----------------------------------------------------------------------------
(* Tokens: jwt.sign is a function of the payload, the second of issue and  *)
(* the key, so two tokens minted for one user at one instant are equal.    *)

NoToken == [id |-> NoUser, typ |-> "none", iat |-> 0, exp |-> 0, key |-> "none"]
ForgedToken == [id |-> "u1", typ |-> "access", iat |-> 0, exp |-> AccessTTL, key |-> "forged"]

generateToken(u) ==
    [id |-> u, typ |-> "access", iat |-> now, exp |-> now + AccessTTL, key |-> "JWT_SECRET"]

RefreshKey(refreshSecretSet) == IF refreshSecretSet THEN "JWT_REFRESH_SECRET" ELSE "JWT_SECRET"

generateRefreshToken(u) ==
    [id |-> u, typ |-> "refresh", iat |-> now, exp |-> now + RefreshTTL,
     key |-> RefreshKey(env.refreshSecretSet)]

\* jwt.verify(token, key): "ok", "expired" (TokenExpiredError) or "invalid"
jwtVerify(tok, key) ==
    IF tok.key # key THEN "invalid"
    ELSE IF now >= tok.exp THEN "expired"
    ELSE "ok"

getTokenExpiry(tok) == tok.exp

-----------------------------------------------------------------------------
(* Session model.                                                          *)

NewSession(u, tok, rt, expiresIn) ==
    [userId |-> u, token |-> tok, refreshToken |-> rt, isActive |-> TRUE,
     lastActivity |-> now, expiresAt |-> now + expiresIn, logoutReason |-> "none"]

\* the unique indexes on token and refreshToken reject the insert (E11000)
DuplicateKey(sess, tok, rt) ==
    \E s \in sess : s.token = tok \/ s.refreshToken = rt

createSession(sess, u, tok, rt, expiresIn) == sess \cup {NewSession(u, tok, rt, expiresIn)}

ActiveSessions(sess, u) ==
    {s \in sess : s.userId = u /\ s.isActive /\ s.expiresAt > now}

\* validateSession: the session found, if any
FindValid(sess, tok) ==
    {s \in sess : s.token = tok /\ s.isActive /\ s.expiresAt > now}

\* validateSession: the collection after the lastActivity update
validateSession(sess, tok) ==
    {IF s \in FindValid(sess, tok) THEN [s EXCEPT !.lastActivity = now] ELSE s : s \in sess}

SetInactive(s, reason) == [s EXCEPT !.isActive = FALSE, !.logoutReason = reason]

invalidateSession(sess, tok, reason) ==
    {IF s.token = tok THEN SetInactive(s, reason) ELSE s : s \in sess}

invalidateAllUserSessions(sess, u, reason) ==
    {IF s.userId = u /\ s.isActive THEN SetInactive(s, reason) ELSE s : s \in sess}

EvictionChoicesOldestOnly(sess, u, maxSessions) ==
    LET active == ActiveSessions(sess, u) IN
    IF Cardinality(active) > maxSessions
    THEN {K \in SUBSET active :
             /\ Cardinality(K) = 1
             /\ \A k \in K : \A s \in active \ K : k.lastActivity <= s.lastActivity}
    ELSE {{}}

\* find(...).sort({lastActivity: -1}) then slice(maxSessions): every set the
\* slice can be, the order of equal lastActivity values being unspecified
EvictionChoices(sess, u, maxSessions) ==
    LET active == ActiveSessions(sess, u) IN
    IF Cardinality(active) > maxSessions
    THEN {K \in SUBSET active :
             /\ Cardinality(K) = Cardinality(active) - maxSessions
             /\ \A k \in K : \A s \in active \ K : k.lastActivity <= s.lastActivity}
    ELSE {{}}

\* enforceConcurrentLimit: the collection after the updateMany on the chosen slice
enforceConcurrentLimit(sess, K) ==
    {IF s.token \in {k.token : k \in K} THEN SetInactive(s, "security") ELSE s : s \in sess}

-----------------------------------------------------------------------------
(* Token blacklist model.                                                  *)

BlacklistReasons == {"logout", "password_change", "security_breach", "admin_action", "expired"}

isBlacklisted(bl, tok) == \E b \in bl : b.token = tok

blacklistTokenUpsert(bl, tok, u, reason, expiresAt) ==
    IF reason \notin BlacklistReasons
    THEN bl
    ELSE {b \in bl : b.token # tok}
             \cup {[token |-> tok, userId |-> u, reason |-> reason,
                    expiresAt |-> IF expiresAt = NoDate THEN now + BlacklistDefaultTTL
                                  ELSE expiresAt]}

\* blacklistToken: create() fails on a reason outside the enum (validation
\* error, returns false) and on a duplicate token (E11000, returns true)
blacklistToken(bl, tok, u, reason, expiresAt) ==
    IF reason \notin BlacklistReasons \/ isBlacklisted(bl, tok)
    THEN bl
    ELSE bl \cup {[token |-> tok, userId |-> u, reason |-> reason,
                   expiresAt |-> IF expiresAt = NoDate THEN now + BlacklistDefaultTTL
                                 ELSE expiresAt]}

\* what blacklistToken returns: true after the insert and on E11000, false on
\* any other error (the validation of reason runs before the insert)
blacklistTokenReturns(bl, tok, reason) == reason \in BlacklistReasons

-----------------------------------------------------------------------------
(* User model: account lockout.                                            *)

isLocked(user) == user.lockUntil # NoDate /\ user.lockUntil > now

incLoginAttemptsLateLock(user) ==
    IF user.lockUntil # NoDate /\ user.lockUntil < now
    THEN [user EXCEPT !.loginAttempts = 1, !.lockUntil = NoDate]
    ELSE [user EXCEPT !.loginAttempts = user.loginAttempts + 1,
                      !.lockUntil = IF user.loginAttempts + 1 > MaxAttempts /\ ~isLocked(user)
                                    THEN now + LockTime ELSE user.lockUntil]

incLoginAttempts(user) ==
    IF user.lockUntil # NoDate /\ user.lockUntil < now
    THEN [user EXCEPT !.loginAttempts = 1, !.lockUntil = NoDate]
    ELSE [user EXCEPT !.loginAttempts = user.loginAttempts + 1,
                      !.lockUntil = IF user.loginAttempts + 1 >= MaxAttempts /\ ~isLocked(user)
                                    THEN now + LockTime ELSE user.lockUntil]

resetLoginAttempts(user) == [user EXCEPT !.loginAttempts = 0, !.lockUntil = NoDate]

-----------------------------------------------------------------------------
(* Two-factor model.                                                       *)

NoOTP == [code |-> "none", expiresAt |-> NoDate, attempts |-> 0]
OtpCodes == {"111111", "222222"}       \* Math.random: any 6-digit code

NoDoc == [exists |-> FALSE, isEnabled |-> FALSE, tempOTP |-> NoOTP, backupCodes |-> <<>>]

generateOTPKeepsAttempts(tf, code) ==
    [tf EXCEPT !.tempOTP = [code |-> code, expiresAt |-> now + OtpTTL,
                            attempts |-> tf.tempOTP.attempts]]

generateOTP(tf, code) ==
    [tf EXCEPT !.tempOTP = [code |-> code, expiresAt |-> now + OtpTTL, attempts |-> 0]]

verifyOTPNoCap(tf, code) ==
    IF tf.tempOTP.code = "none" THEN [ok |-> FALSE, compared |-> FALSE, tf |-> tf]
    ELSE IF now > tf.tempOTP.expiresAt THEN [ok |-> FALSE, compared |-> FALSE, tf |-> tf]
    ELSE IF tf.tempOTP.code = code
         THEN [ok |-> TRUE, compared |-> TRUE, tf |-> [tf EXCEPT !.tempOTP = NoOTP]]
    ELSE [ok |-> FALSE, compared |-> TRUE,
          tf |-> [tf EXCEPT !.tempOTP.attempts = @ + 1]]

verifyOTPIgnoresExpiry(tf, code) ==
    IF tf.tempOTP.code = "none" THEN [ok |-> FALSE, compared |-> FALSE, tf |-> tf]
    ELSE IF tf.tempOTP.attempts >= OtpMaxAttempts
         THEN [ok |-> FALSE, compared |-> FALSE, tf |-> tf]
    ELSE IF tf.tempOTP.code = code
         THEN [ok |-> TRUE, compared |-> TRUE, tf |-> [tf EXCEPT !.tempOTP = NoOTP]]
    ELSE [ok |-> FALSE, compared |-> TRUE,
          tf |-> [tf EXCEPT !.tempOTP.attempts = @ + 1]]

\* verifyOTP: the result, whether the code was compared, and the document after
verifyOTP(tf, code) ==
    IF tf.tempOTP.code = "none" THEN [ok |-> FALSE, compared |-> FALSE, tf |-> tf]
    ELSE IF now > tf.tempOTP.expiresAt THEN [ok |-> FALSE, compared |-> FALSE, tf |-> tf]
    ELSE IF tf.tempOTP.attempts >= OtpMaxAttempts
         THEN [ok |-> FALSE, compared |-> FALSE, tf |-> tf]
    ELSE IF tf.tempOTP.code = code
         THEN [ok |-> TRUE, compared |-> TRUE, tf |-> [tf EXCEPT !.tempOTP = NoOTP]]
    ELSE [ok |-> FALSE, compared |-> TRUE,
          tf |-> [tf EXCEPT !.tempOTP.attempts = @ + 1]]

(* Backup codes are strings: sequences of characters.  The codes drawn     *)
(* from crypto.randomBytes(4) are upper-case hex and are taken to be       *)
(* values never drawn before: CodeOf(i) is the i-th draw.                  *)

HexUpper == <<"A", "B", "1">>

CodeOf(i) == <<HexUpper[(i \div 3) + 1], HexUpper[(i % 3) + 1]>>
MaxCodes == Len(HexUpper) * Len(HexUpper)

UpperChar(c) == CASE c = "a" -> "A" [] c = "b" -> "B" [] OTHER -> c
LowerChar(c) == CASE c = "A" -> "a" [] c = "B" -> "b" [] OTHER -> c

toUpperCase(str) == [i \in 1..Len(str) |-> UpperChar(str[i])]
toLowerCase(str) == [i \in 1..Len(str) |-> LowerChar(str[i])]

\* generateBackupCodes: the codes are pushed onto the array
generateBackupCodes(tf, seq, count) ==
    [tf EXCEPT !.backupCodes = @ \o [i \in 1..count |-> [code |-> CodeOf(seq + i - 1),
                                                         used |-> FALSE]]]

MatchingCodesIgnoringUsed(tf, code) ==
    {i \in 1..Len(tf.backupCodes) : tf.backupCodes[i].code = toUpperCase(code)}

\* backupCodes.find(bc => bc.code === code.toUpperCase() && !bc.used)
MatchingCodes(tf, code) ==
    {i \in 1..Len(tf.backupCodes) :
        tf.backupCodes[i].code = toUpperCase(code) /\ ~tf.backupCodes[i].used}

Min(S) == CHOOSE m \in S : \A x \in S : m <= x

\* verifyBackupCode: the result, the index marked, and the document after
verifyBackupCode(tf, code) ==
    IF MatchingCodes(tf, code) = {}
    THEN [ok |-> FALSE, index |-> 0, tf |-> tf]
    ELSE [ok |-> TRUE, index |-> Min(MatchingCodes(tf, code)),
          tf |-> [tf EXCEPT !.backupCodes[Min(MatchingCodes(tf, code))].used = TRUE]]

\* TwoFactor.enableForUser
enableForUser(tf, seq) ==
    generateBackupCodes([tf EXCEPT !.exists = TRUE, !.isEnabled = TRUE], seq, BackupCount)

\* TwoFactor.disableForUser
disableForUser(tf) == [tf EXCEPT !.isEnabled = FALSE, !.tempOTP = NoOTP]

-----------------------------------------------------------------------------
(* Responses.                                                              *)

Resp(op, status, kind) ==
    [op |-> op, status |-> status, kind |-> kind, user |-> NoUser,
     token |-> NoToken, refresh |-> NoToken, n |-> 0, sessionFound |-> FALSE,
     arg |-> "none"]

\* the fields of the JSON body generateAuthenticationOptions sends, by outcome
AuthOptionsFields(kind) ==
    CASE kind = "options_null" -> {"status", "data"}
      [] kind = "options" -> {"status", "data"}
      [] kind = "no_credentials" -> {"status", "message"}

\* the fields of the JSON body of a failed password login (warning is undefined,
\* and left out of the JSON, unless at most 2 attempts remain)
LoginFailureFields(r) ==
    CASE r.kind = "account_locked" -> {"status", "message", "lockUntil", "remainingMinutes"}
      [] r.kind = "invalid_credentials" /\ r.user = NoUser -> {"status", "message"}
      [] r.kind = "invalid_credentials" /\ r.user # NoUser ->
            {"status", "message", "remainingAttempts"}
                \cup (IF r.n <= 2 THEN {"warning"} ELSE {})

-----------------------------------------------------------------------------
(* auth.middleware protect: the checks in the order the code makes them.   *)

protectKindNoBlacklist(tok) ==
    IF tok = NoToken THEN "no_token"
    ELSE IF jwtVerify(tok, "JWT_SECRET") = "expired" THEN "token_expired"
    ELSE IF jwtVerify(tok, "JWT_SECRET") = "invalid" THEN "not_authorized"
    ELSE IF tok.id \notin UserIds THEN "no_user"
    ELSE IF ~users[tok.id].isActive THEN "deactivated"
    ELSE "next"

protectKind(tok) ==
    IF tok = NoToken THEN "no_token"
    ELSE IF isBlacklisted(blacklist, tok) THEN "blacklisted"
    ELSE IF jwtVerify(tok, "JWT_SECRET") = "expired" THEN "token_expired"
    ELSE IF jwtVerify(tok, "JWT_SECRET") = "invalid" THEN "not_authorized"
    ELSE IF tok.id \notin UserIds THEN "no_user"
    ELSE IF ~users[tok.id].isActive THEN "deactivated"
    ELSE "next"

\* the session lookup is made, and its result is only logged
protect(tok) ==
    [kind |-> protectKind(tok),
     sessionFound |-> protectKind(tok) = "next" /\ FindValid(sessions, tok) # {},
     sess |-> IF protectKind(tok) = "next" THEN validateSession(sessions, tok) ELSE sessions]

Rejected(op, tok, p) == [Resp(op, 401, p.kind) EXCEPT !.token = tok]

-----------------------------------------------------------------------------
(* auth.controller login.                                                  *)

LoginLocked(u, password) ==
    /\ resp' = [Resp("login", 423, "account_locked") EXCEPT
                   !.user = u, !.n = users[u].lockUntil - now, !.arg = password]
    /\ UNCHANGED <<users, sessions, issued, twoFactor, hist>>

LoginWrongPassword(u) ==
    /\ users' = [users EXCEPT ![u] = incLoginAttempts(users[u])]
    /\ resp' = [Resp("login", 401, "invalid_credentials") EXCEPT
                   !.user = u,
                   !.n = IF MaxAttempts - (users[u].loginAttempts + 1) > 0
                         THEN MaxAttempts - (users[u].loginAttempts + 1) ELSE 0]
    /\ hist' = [hist EXCEPT !.streak[u] = IF @ < MaxAttempts + 1 THEN @ + 1 ELSE @]
    /\ UNCHANGED <<sessions, issued, twoFactor>>

LoginRequires2FA(u, code) ==
    /\ twoFactor' = [twoFactor EXCEPT ![u] = generateOTP(twoFactor[u], code)]
    /\ resp' = [Resp("login", 200, "requires2FA") EXCEPT !.user = u]
    /\ UNCHANGED <<sessions, issued>>

\* generateToken, generateRefreshToken, createSession, enforceConcurrentLimit
IssueSession(op, u, maxIssued) ==
    LET tok == generateToken(u)
        rt == generateRefreshToken(u)
    IN  /\ Cardinality(issued \cup {tok, rt}) <= maxIssued
        /\ issued' = issued \cup {tok, rt}
        /\ IF DuplicateKey(sessions, tok, rt)
           THEN /\ sessions' = sessions
                /\ resp' = [Resp(op, 500, "error") EXCEPT !.user = u]
           ELSE \E K \in EvictionChoices(createSession(sessions, u, tok, rt, SessionTTL),
                                         u, MaxSessionsPerUser) :
                  /\ sessions' = enforceConcurrentLimit(
                                     createSession(sessions, u, tok, rt, SessionTTL), K)
                  /\ resp' = [Resp(op, 200, "success") EXCEPT
                                 !.user = u, !.token = tok, !.refresh = rt,
                                 !.n = Cardinality(K)]

LoginPasswordOkSkips2FA(u, maxIssued) ==
    /\ users' = [users EXCEPT ![u] = IF users[u].loginAttempts > 0
                                      THEN resetLoginAttempts(users[u]) ELSE users[u]]
    /\ hist' = [hist EXCEPT !.streak[u] = 0]
    /\ IssueSession("login", u, maxIssued) /\ UNCHANGED twoFactor

LoginPasswordOk(u, maxIssued) ==
    /\ users' = [users EXCEPT ![u] = IF users[u].loginAttempts > 0
                                      THEN resetLoginAttempts(users[u]) ELSE users[u]]
    /\ hist' = [hist EXCEPT !.streak[u] = 0,
                            !.compared[u] = IF twoFactor[u].exists /\ twoFactor[u].isEnabled
                                            THEN 0 ELSE @,
                            !.overwritten[u] = IF twoFactor[u].exists /\ twoFactor[u].isEnabled
                                               THEN twoFactor[u].tempOTP.code ELSE @,
                            !.accepted = IF twoFactor[u].exists /\ twoFactor[u].isEnabled
                                         THEN {} ELSE @,
                            !.passwordOk[u] = twoFactor[u].exists /\ twoFactor[u].isEnabled]
    /\ IF twoFactor[u].exists /\ twoFactor[u].isEnabled
       THEN \E code \in OtpCodes : LoginRequires2FA(u, code)
       ELSE IssueSession("login", u, maxIssued) /\ UNCHANGED twoFactor

login(email, password, maxIssued) ==
    LET u == findUserByEmail(email) IN
    /\ IF u = NoUser
       THEN /\ resp' = Resp("login", 401, "invalid_credentials")
            /\ UNCHANGED <<users, sessions, issued, twoFactor, hist>>
       ELSE IF isLocked(users[u]) THEN LoginLocked(u, password)
       ELSE IF ~matchPassword(users[u], password) THEN LoginWrongPassword(u)
       ELSE LoginPasswordOk(u, maxIssued)
    /\ UNCHANGED <<now, blacklist, codeSeq, credentials, challenges, chalSeq, reqs, env>>

-----------------------------------------------------------------------------
(* Authenticated requests: protect, then the handler.                      *)

\* any protected route whose handler changes nothing here (GET /api/auth/me)
Request(tok) ==
    LET p == protect(tok) IN
    /\ sessions' = p.sess
    /\ resp' = IF p.kind = "next"
               THEN [Resp("request", 200, "success") EXCEPT
                        !.user = tok.id, !.token = tok, !.sessionFound = p.sessionFound]
               ELSE Rejected("request", tok, p)
    /\ UNCHANGED <<now, users, blacklist, issued, twoFactor, codeSeq, credentials,
                   challenges, chalSeq, reqs, env, hist>>

\* auth.controller logout
logout(tok) ==
    LET p == protect(tok) IN
    /\ IF p.kind = "next"
       THEN /\ sessions' = invalidateSession(p.sess, tok, "manual")
            /\ blacklist' = blacklistToken(blacklist, tok, tok.id, "logout", getTokenExpiry(tok))
            /\ resp' = [Resp("logout", 200, "success") EXCEPT !.user = tok.id, !.token = tok]
       ELSE /\ sessions' = p.sess
            /\ blacklist' = blacklist
            /\ resp' = Rejected("logout", tok, p)
    /\ UNCHANGED <<now, users, issued, twoFactor, codeSeq, credentials,
                   challenges, chalSeq, reqs, env, hist>>

RECURSIVE BlacklistAll(_, _, _, _)
\* for (const session of sessions) blacklistToken(session.token, userId, reason, expiry)
BlacklistAllSkipped(bl, found, u, reason) == bl

BlacklistAll(bl, found, u, reason) ==
    IF found = {} THEN bl
    ELSE LET s == CHOOSE x \in found : TRUE IN
         BlacklistAll(blacklistToken(bl, s.token, u, reason, getTokenExpiry(s.token)),
                      found \ {s}, u, reason)

\* session.controller logoutAllSessions
logoutAllSessions(tok) ==
    LET p == protect(tok)
        u == tok.id
        found == {s \in p.sess : s.userId = u /\ s.isActive /\ s.token # tok}
        invalidated == invalidateAllUserSessions(p.sess, u, "forced")
    IN
    /\ IF p.kind = "next"
       THEN /\ sessions' = {IF s.token = tok
                            THEN [s EXCEPT !.isActive = TRUE, !.logoutReason = "none"]
                            ELSE s : s \in invalidated}
            /\ blacklist' = BlacklistAll(blacklist, found, u, "security")
            /\ resp' = [Resp("logoutAll", 200, "success") EXCEPT
                           !.user = u, !.token = tok, !.n = Cardinality(found)]
       ELSE /\ sessions' = p.sess
            /\ blacklist' = blacklist
            /\ resp' = Rejected("logoutAll", tok, p)
    /\ UNCHANGED <<now, users, issued, twoFactor, codeSeq, credentials,
                   challenges, chalSeq, reqs, env, hist>>

-----------------------------------------------------------------------------
(* Two-factor controllers.                                                 *)

TfFrame == <<now, users, blacklist, credentials, challenges, chalSeq, reqs, env>>

\* the 401 of a public two-factor endpoint for an unknown user or disabled 2FA
TfRefused(op, kind) ==
    /\ resp' = Resp(op, 401, kind)
    /\ UNCHANGED <<twoFactor, sessions, issued, codeSeq, hist>>

TfUsable(u) == u # NoUser /\ twoFactor[u].exists /\ twoFactor[u].isEnabled

\* twoFactor.controller sendOTP
sendOTP(email) ==
    LET u == findUserByEmail(email) IN
    /\ IF TfUsable(u)
       THEN \E code \in OtpCodes :
              /\ twoFactor' = [twoFactor EXCEPT ![u] = generateOTP(twoFactor[u], code)]
              /\ hist' = [hist EXCEPT !.compared[u] = 0,
                                      !.overwritten[u] = twoFactor[u].tempOTP.code,
                                      !.accepted = {}]
              /\ resp' = [Resp("sendOTP", 200, "otp_sent") EXCEPT !.user = u]
       ELSE /\ resp' = Resp("sendOTP", 200, "if_enabled_sent")
            /\ UNCHANGED <<twoFactor, hist>>
    /\ UNCHANGED <<sessions, issued, codeSeq>>
    /\ UNCHANGED TfFrame

\* a login attempt ends when its second step creates the session
NoteSecondStep(h, u, ok) ==
    [h EXCEPT !.passwordOk[u] = IF ok THEN FALSE ELSE @]

NoteOTP(u, r) ==
    [hist EXCEPT !.compared[u] = IF r.compared THEN @ + 1 ELSE @]

\* twoFactor.controller verifyOTP
verifyOTPRequest(email, code) ==
    LET u == findUserByEmail(email) IN
    /\ IF ~TfUsable(u) THEN TfRefused("verifyOTP", "invalid_code")
       ELSE LET r == verifyOTP(twoFactor[u], code) IN
            /\ twoFactor' = [twoFactor EXCEPT ![u] = r.tf]
            /\ hist' = NoteOTP(u, r)
            /\ resp' = [Resp("verifyOTP", IF r.ok THEN 200 ELSE 401,
                             IF r.ok THEN "verified" ELSE "invalid_or_expired_code")
                        EXCEPT !.user = u, !.arg = code]
            /\ UNCHANGED <<sessions, issued, codeSeq>>
    /\ UNCHANGED TfFrame

NoteBackup(u, r, code) ==
    [hist EXCEPT !.redeemed[u] = IF r.ok THEN @ \cup {toUpperCase(code)} ELSE @]

\* twoFactor.controller verifyBackupCode
verifyBackupCodeRequest(email, code) ==
    LET u == findUserByEmail(email) IN
    /\ IF ~TfUsable(u) THEN TfRefused("verifyBackupCode", "invalid_backup_code")
       ELSE LET r == verifyBackupCode(twoFactor[u], code) IN
            /\ twoFactor' = [twoFactor EXCEPT ![u] = r.tf]
            /\ hist' = NoteBackup(u, r, code)
            /\ resp' = [Resp("verifyBackupCode", IF r.ok THEN 200 ELSE 401,
                             IF r.ok THEN "verified" ELSE "invalid_or_used_backup_code")
                        EXCEPT !.user = u, !.arg = code]
            /\ UNCHANGED <<sessions, issued, codeSeq>>
    /\ UNCHANGED TfFrame

\* session.controller loginWith2FA
loginWith2FA(email, code, useBackupCode, maxIssued) ==
    LET u == findUserByEmail(email) IN
    /\ IF ~TfUsable(u)
       THEN TfRefused("loginWith2FA", IF u = NoUser THEN "invalid_credentials"
                                      ELSE "2fa_not_enabled")
       ELSE LET rb == verifyBackupCode(twoFactor[u], code)
                ro == verifyOTP(twoFactor[u], code)
                ok == IF useBackupCode THEN rb.ok ELSE ro.ok
            IN
            /\ twoFactor' = [twoFactor EXCEPT ![u] = IF useBackupCode THEN rb.tf ELSE ro.tf]
            /\ hist' = NoteSecondStep(IF useBackupCode THEN NoteBackup(u, rb, code)
                                       ELSE NoteOTP(u, ro), u, ok)
            /\ IF ok
               THEN IssueSession("loginWith2FA", u, maxIssued)
               ELSE /\ resp' = [Resp("loginWith2FA", 401,
                                     IF useBackupCode THEN "invalid_or_used_backup_code"
                                     ELSE "invalid_or_expired_code")
                                EXCEPT !.user = u, !.arg = code]
                    /\ UNCHANGED <<sessions, issued>>
            /\ UNCHANGED codeSeq
    /\ UNCHANGED TfFrame

ProtectedFrame == <<now, users, blacklist, issued, credentials, challenges, chalSeq, reqs, env, hist>>

\* twoFactor.controller enable2FA (behind protect)
enable2FA(tok) ==
    LET p == protect(tok) IN
    /\ sessions' = p.sess
    /\ IF p.kind = "next"
       THEN /\ codeSeq + BackupCount <= MaxDrawn
            /\ twoFactor' = [twoFactor EXCEPT ![tok.id] = enableForUser(@, codeSeq)]
            /\ codeSeq' = codeSeq + BackupCount
            /\ resp' = [Resp("enable2FA", 200, "enabled") EXCEPT
                           !.user = tok.id, !.token = tok, !.n = BackupCount]
       ELSE /\ resp' = Rejected("enable2FA", tok, p)
            /\ UNCHANGED <<twoFactor, codeSeq>>
    /\ UNCHANGED ProtectedFrame

\* twoFactor.controller disable2FA (behind protect)
disable2FA(tok, password) ==
    LET p == protect(tok) IN
    /\ sessions' = p.sess
    /\ IF p.kind # "next"
       THEN resp' = Rejected("disable2FA", tok, p) /\ UNCHANGED twoFactor
       ELSE IF ~matchPassword(users[tok.id], password)
       THEN resp' = [Resp("disable2FA", 401, "invalid_password") EXCEPT !.user = tok.id]
            /\ UNCHANGED twoFactor
       ELSE IF ~twoFactor[tok.id].exists
       THEN resp' = [Resp("disable2FA", 404, "not_enabled") EXCEPT !.user = tok.id]
            /\ UNCHANGED twoFactor
       ELSE /\ twoFactor' = [twoFactor EXCEPT ![tok.id] = disableForUser(@)]
            /\ resp' = [Resp("disable2FA", 200, "disabled") EXCEPT !.user = tok.id]
    /\ UNCHANGED codeSeq
    /\ UNCHANGED ProtectedFrame

\* twoFactor.controller regenerateBackupCodes (behind protect)
regenerateBackupCodes(tok, password) ==
    LET p == protect(tok) IN
    /\ sessions' = p.sess
    /\ IF p.kind # "next"
       THEN resp' = Rejected("regenerateBackupCodes", tok, p) /\ UNCHANGED <<twoFactor, codeSeq>>
       ELSE IF ~matchPassword(users[tok.id], password)
       THEN resp' = [Resp("regenerateBackupCodes", 401, "invalid_password") EXCEPT !.user = tok.id]
            /\ UNCHANGED <<twoFactor, codeSeq>>
       ELSE IF ~(twoFactor[tok.id].exists /\ twoFactor[tok.id].isEnabled)
       THEN resp' = [Resp("regenerateBackupCodes", 404, "not_enabled") EXCEPT !.user = tok.id]
            /\ UNCHANGED <<twoFactor, codeSeq>>
       ELSE /\ codeSeq + BackupCount <= MaxDrawn
            /\ twoFactor' = [twoFactor EXCEPT ![tok.id] =
                                generateBackupCodes([@ EXCEPT !.backupCodes = <<>>],
                                                    codeSeq, BackupCount)]
            /\ codeSeq' = codeSeq + BackupCount
            /\ resp' = [Resp("regenerateBackupCodes", 200, "regenerated") EXCEPT
                           !.user = tok.id, !.n = BackupCount]
    /\ UNCHANGED ProtectedFrame

-----------------------------------------------------------------------------
(* The clock and MongoDB's TTL monitor.                                    *)

Advance(instants) ==
    /\ \E t \in instants : t > now /\ now' = t
    /\ UNCHANGED <<users, sessions, blacklist, issued, twoFactor, codeSeq, credentials,
                   challenges, chalSeq, reqs, env, resp, hist>>

\* the TTL indexes (expireAfterSeconds: 0) of sessions, tokenblacklists, webauthnchallenges
TTLMonitor ==
    /\ sessions' = {s \in sessions : s.expiresAt > now}
    /\ blacklist' = {b \in blacklist : b.expiresAt > now}
    /\ challenges' = {c \in challenges : c.expiresAt > now}
    /\ <<sessions', blacklist', challenges'>> # <<sessions, blacklist, challenges>>
    /\ UNCHANGED <<now, users, issued, twoFactor, codeSeq, credentials, chalSeq,
                   reqs, env, resp, hist>>

-----------------------------------------------------------------------------
(* The state after the application has started and two users exist.        *)

NewUser == [password |-> bcryptHash("correct"), isActive |-> TRUE,
            loginAttempts |-> 0, lockUntil |-> NoDate]

Init ==
    /\ now = 0
    /\ users = [u \in UserIds |-> NewUser]
    /\ sessions = {}
    /\ blacklist = {}
    /\ issued = {}
    /\ twoFactor = [u \in UserIds |-> NoDoc]
    /\ codeSeq = 0
    /\ credentials = <<>>
    /\ challenges = {}
    /\ chalSeq = 0
    /\ reqs = <<>>
    /\ env = [refreshSecretSet |-> FALSE]
    /\ resp = Resp("none", 0, "none")
    /\ hist = [streak |-> [u \in UserIds |-> 0],
               redeemed |-> [u \in UserIds |-> {}],
               compared |-> [u \in UserIds |-> 0],
               passes |-> <<>>,
               overwritten |-> [u \in UserIds |-> NoOTP.code],
               forced |-> {},
               accepted |-> {},
               passwordOk |-> [u \in UserIds |-> FALSE]]

-----------------------------------------------------------------------------
(* Sessions and revocation: logins with the right password, authenticated  *)
(* requests with any token a client holds or forges.                       *)

Presentable == issued \cup {ForgedToken}

SessLogin == \E u \in {"u1"} : login("u1@x.com", "correct", MaxIssued)
SessRequest == \E tok \in Presentable : Request(tok)
SessLogout == \E tok \in Presentable : logout(tok)
SessLogoutAll == \E tok \in Presentable : logoutAllSessions(tok)
SessInstants == (0..MaxTick) \cup {SessionTTL + t : t \in 0..FarTicks}
SessTick == Advance(SessInstants)

NextSess == SessLogin \/ SessRequest \/ SessLogout \/ SessLogoutAll \/ SessTick \/ TTLMonitor

SpecSess == Init /\ [][NextSess]_vars

-----------------------------------------------------------------------------
(* The concurrent-session cap: four logins of one user at distinct         *)
(* instants, requests and logout-all with the access tokens of the         *)
(* stored sessions.                                                        *)

SessionTokens == {s.token : s \in sessions}

CapLogin == login("u1@x.com", "correct", CapMaxIssued)
CapRequest == \E tok \in SessionTokens : Request(tok)
CapLogoutAll == \E tok \in SessionTokens : logoutAllSessions(tok)
CapTick == Advance(0..CapMaxTick)

NextCap == CapLogin \/ CapRequest \/ CapLogoutAll \/ CapTick

SpecCap == Init /\ [][NextCap]_vars

-----------------------------------------------------------------------------
(* Admin forced logout: POST /api/sessions/force-logout/:userId behind     *)
(* protect and authorize('admin').                                         *)

roleOf(u) == IF u = "u2" THEN "admin" ELSE "intern"

authorize(roles, u) == roleOf(u) \in roles

forceLogoutUser(adminTok, userId) ==
    LET p == protect(adminTok)
        found == {s \in p.sess : s.userId = userId /\ s.isActive}
    IN
    /\ IF p.kind # "next"
       THEN /\ sessions' = p.sess
            /\ blacklist' = blacklist
            /\ resp' = Rejected("forceLogout", adminTok, p)
            /\ hist' = hist
       ELSE IF ~authorize({"admin"}, adminTok.id)
       THEN /\ sessions' = p.sess
            /\ blacklist' = blacklist
            /\ resp' = [Resp("forceLogout", 403, "role_not_authorized") EXCEPT
                           !.token = adminTok]
            /\ hist' = hist
       ELSE /\ sessions' = invalidateAllUserSessions(p.sess, userId, "forced")
            /\ blacklist' = BlacklistAll(blacklist, found, userId, "admin_action")
            /\ resp' = [Resp("forceLogout", 200, "success") EXCEPT
                           !.user = userId, !.token = adminTok, !.n = Cardinality(found)]
            /\ hist' = [hist EXCEPT !.forced = @ \cup {s.token : s \in found}]
    /\ UNCHANGED <<now, users, issued, twoFactor, codeSeq, credentials,
                   challenges, chalSeq, reqs, env>>

FcLogin == \E email \in {"u1@x.com", "u2@x.com"} : login(email, "correct", FcMaxIssued)
FcForceLogout == \E adminTok \in SessionTokens, userId \in UserIds :
                     forceLogoutUser(adminTok, userId)
FcRequest == \E tok \in issued : Request(tok)
FcTick == Advance((0..FcMaxTick) \cup {AccessTTL, AccessTTL + FcMaxTick})

NextForce == FcLogin \/ FcForceLogout \/ FcRequest \/ FcTick \/ TTLMonitor

SpecForce == Init /\ [][NextForce]_vars


-----------------------------------------------------------------------------
(* session.controller refreshToken.                                        *)

FindByRefreshTokenAnyState(sess, rt) == {x \in sess : x.refreshToken = rt}

\* Session.findOne({refreshToken, isActive: true, expiresAt: {$gt: new Date()}})
FindByRefreshToken(sess, rt) ==
    {x \in sess : x.refreshToken = rt /\ x.isActive /\ x.expiresAt > now}

rotateTokenExtending(session, newToken) ==
    [session EXCEPT !.token = newToken, !.lastActivity = now, !.expiresAt = now + SessionTTL]

\* session.token = newToken; session.lastActivity = new Date()
rotateToken(session, newToken) ==
    [session EXCEPT !.token = newToken, !.lastActivity = now]

RefreshRefused(kind) ==
    /\ resp' = Resp("refreshToken", 401, kind)
    /\ UNCHANGED <<sessions, issued>>

refreshToken(rt, maxIssued) ==
    LET found == FindByRefreshToken(sessions, rt)
        newToken == generateToken(rt.id)
    IN
    /\ IF jwtVerify(rt, RefreshKey(env.refreshSecretSet)) # "ok"
       THEN RefreshRefused("invalid_refresh_token")
       ELSE IF found = {} THEN RefreshRefused("invalid_refresh_token")
       ELSE IF rt.id \notin UserIds \/ ~users[rt.id].isActive
       THEN RefreshRefused("user_not_found")
       ELSE LET session == CHOOSE x \in found : TRUE IN
            IF \E x \in sessions \ {session} : x.token = newToken
            THEN RefreshRefused("invalid_refresh_token")   \* save() throws E11000
            ELSE /\ Cardinality(issued \cup {newToken}) <= maxIssued
                 /\ issued' = issued \cup {newToken}
                 /\ sessions' = (sessions \ {session}) \cup {rotateToken(session, newToken)}
                 /\ resp' = [Resp("refreshToken", 200, "success") EXCEPT
                                !.user = rt.id, !.token = newToken, !.refresh = rt,
                                !.n = getTokenExpiry(newToken)]
    /\ UNCHANGED <<now, users, blacklist, twoFactor, codeSeq, credentials, challenges,
                   chalSeq, reqs, env, hist>>

RfLogin == login("u1@x.com", "correct", RfMaxIssued)
RfRefresh == \E rt \in Presentable : refreshToken(rt, RfMaxIssued)
RfLogout == \E tok \in Presentable : logout(tok)
RfTick == Advance((0..RfMaxTick) \cup {SessionTTL})

NextRefresh == RfLogin \/ RfRefresh \/ RfLogout \/ RfTick

SpecRefresh == Init /\ [][NextRefresh]_vars

-----------------------------------------------------------------------------
(* Logout of one session: POST /api/auth/logout with the session's access  *)
(* token, DELETE /api/sessions/:sessionId with any token of its owner,     *)
(* then refreshes with every refresh token issued.  A session document is  *)
(* identified (its _id) by its refresh token, which never changes.         *)

\* Session.findById(req.params.sessionId)
findById(sess, sid) == {s \in sess : s.refreshToken = sid}

\* session.controller logoutSession (behind protect)
logoutSession(tok, sid) ==
    LET p == protect(tok)
        found == findById(p.sess, sid)
    IN
    /\ IF p.kind # "next"
       THEN /\ sessions' = p.sess
            /\ blacklist' = blacklist
            /\ resp' = Rejected("logoutSession", tok, p)
       ELSE IF found = {}
       THEN /\ sessions' = p.sess
            /\ blacklist' = blacklist
            /\ resp' = [Resp("logoutSession", 404, "session_not_found") EXCEPT !.user = tok.id]
       ELSE LET session == CHOOSE x \in found : TRUE IN
            IF session.userId # tok.id
            THEN /\ sessions' = p.sess
                 /\ blacklist' = blacklist
                 /\ resp' = [Resp("logoutSession", 403, "not_authorized") EXCEPT
                                !.user = tok.id]
            ELSE /\ sessions' = invalidateSession(p.sess, session.token, "manual")
                 /\ blacklist' = blacklistToken(blacklist, session.token, tok.id, "logout",
                                                getTokenExpiry(session.token))
                 /\ resp' = [Resp("logoutSession", 200, "success") EXCEPT
                                !.user = tok.id, !.token = session.token]
    /\ UNCHANGED <<now, users, issued, twoFactor, codeSeq, credentials,
                   challenges, chalSeq, reqs, env, hist>>

SessionIds == {s.refreshToken : s \in sessions} \cup {ForgedToken}

LoLogin == login("u1@x.com", "correct", LoMaxIssued)
LoRefresh == \E rt \in Presentable : refreshToken(rt, LoMaxIssued)
LoLogout == \E tok \in Presentable : logout(tok)
LoLogoutSession == \E tok \in SessionTokens, sid \in SessionIds : logoutSession(tok, sid)
LoLogoutAll == \E tok \in SessionTokens : logoutAllSessions(tok)
LoTick == Advance({LoMaxTick, AccessTTL})

NextLogout ==
    LoLogin \/ LoRefresh \/ LoLogout \/ LoLogoutSession \/ LoLogoutAll \/ LoTick \/ TTLMonitor

SpecLogout == Init /\ [][NextLogout]_vars

-----------------------------------------------------------------------------
(* Signing keys: the application started with JWT_REFRESH_SECRET set or    *)
(* unset; clients present every token they hold as a Bearer token.         *)

InitAnyEnv ==
    /\ now = 0
    /\ users = [u \in UserIds |-> NewUser]
    /\ sessions = {}
    /\ blacklist = {}
    /\ issued = {}
    /\ twoFactor = [u \in UserIds |-> NoDoc]
    /\ codeSeq = 0
    /\ credentials = <<>>
    /\ challenges = {}
    /\ chalSeq = 0
    /\ reqs = <<>>
    /\ env \in {[refreshSecretSet |-> b] : b \in BOOLEAN}
    /\ resp = Resp("none", 0, "none")
    /\ hist = [streak |-> [u \in UserIds |-> 0],
               redeemed |-> [u \in UserIds |-> {}],
               compared |-> [u \in UserIds |-> 0],
               passes |-> <<>>,
               overwritten |-> [u \in UserIds |-> NoOTP.code],
               forced |-> {},
               accepted |-> {},
               passwordOk |-> [u \in UserIds |-> FALSE]]

KyLogin == \E email \in {"u1@x.com", "u2@x.com"} : login(email, "correct", KyMaxIssued)
KyRequest == \E tok \in Presentable : Request(tok)
KyRefresh == \E rt \in Presentable : refreshToken(rt, KyMaxIssued)
KyTick == Advance((0..KyMaxTick) \cup {AccessTTL})

NextKeys == KyLogin \/ KyRequest \/ KyRefresh \/ KyTick

SpecKeys == InitAnyEnv /\ [][NextKeys]_vars

-----------------------------------------------------------------------------
(* Refusals of refreshToken: sessions that were logged out or have         *)
(* expired, refresh tokens past their own expiry, forged tokens, and users *)
(* an admin has deactivated (user.controller deactivateUser).              *)

\* user.controller deactivateUser / activateUser (behind protect and authorize('admin'))
setUserActive(adminTok, id, active) ==
    LET p == protect(adminTok) IN
    /\ sessions' = p.sess
    /\ IF p.kind # "next"
       THEN /\ resp' = Rejected("setUserActive", adminTok, p)
            /\ users' = users
       ELSE IF ~authorize({"admin"}, adminTok.id)
       THEN /\ resp' = [Resp("setUserActive", 403, "role_not_authorized") EXCEPT
                           !.token = adminTok]
            /\ users' = users
       ELSE /\ users' = [users EXCEPT ![id].isActive = active]
            /\ resp' = [Resp("setUserActive", 200, IF active THEN "activated"
                                                   ELSE "deactivated")
                        EXCEPT !.user = id, !.token = adminTok]
    /\ UNCHANGED <<now, blacklist, issued, twoFactor, codeSeq, credentials, challenges,
                   chalSeq, reqs, env, hist>>

RxLogin == \E email \in {"u1@x.com", "u2@x.com"} : login(email, "correct", RxMaxIssued)
RxRefresh == \E rt \in Presentable : refreshToken(rt, RxMaxIssued)
RxLogout == \E tok \in SessionTokens : logout(tok)
RxSetActive == \E adminTok \in SessionTokens, active \in BOOLEAN :
                   setUserActive(adminTok, "u1", active)
RxTick == Advance((0..RxMaxTick) \cup {SessionTTL, RefreshTTL})

NextRefusal == RxLogin \/ RxRefresh \/ RxLogout \/ RxSetActive \/ RxTick

SpecRefusal == Init /\ [][NextRefusal]_vars

-----------------------------------------------------------------------------
(* TokenBlacklist.blacklistToken called with the arguments its callers     *)
(* pass: logout ('logout'), forceLogoutUser ('admin_action'),              *)
(* logoutAllSessions ('security'), with the token's expiry or none.        *)

BlTokens ==
    {[id |-> u, typ |-> "access", iat |-> 0, exp |-> AccessTTL, key |-> "JWT_SECRET"] :
        u \in UserIds}

BlReasons == {"logout", "admin_action", "security"}

BlCall(tok, u, reason, expiresAt) ==
    /\ blacklist' = blacklistToken(blacklist, tok, u, reason, expiresAt)
    /\ resp' = [Resp("blacklistToken", 0,
                     IF blacklistTokenReturns(blacklist, tok, reason) THEN "true" ELSE "false")
                EXCEPT !.token = tok, !.user = u, !.arg = reason, !.n = expiresAt]
    /\ UNCHANGED <<now, users, sessions, issued, twoFactor, codeSeq, credentials, challenges,
                   chalSeq, reqs, env, hist>>

BlBlacklist ==
    \E tok \in BlTokens, u \in UserIds, reason \in BlReasons :
        \E expiresAt \in {NoDate, getTokenExpiry(tok)} : BlCall(tok, u, reason, expiresAt)
BlTick == Advance(0..BlMaxTick)

NextBlacklist == BlBlacklist \/ BlTick

SpecBlacklist == Init /\ [][NextBlacklist]_vars

-----------------------------------------------------------------------------
(* Password login and account lockout.                                     *)

LgStep == LockTime \div 3

LgLogin == \E email \in Emails, password \in Passwords : login(email, password, LgMaxIssued)
LgTick == Advance({k * LgStep : k \in 0..LgSteps})

NextLogin == LgLogin \/ LgTick

SpecLogin == Init /\ [][NextLogin]_vars

-----------------------------------------------------------------------------
(* Two-factor authentication, one request at a time.  The run starts when  *)
(* u1 has logged in and enabled two-factor authentication at instant 0.    *)

Init2FA ==
    /\ now = 0
    /\ users = [u \in UserIds |-> NewUser]
    /\ sessions = {[userId |-> "u1",
                   token |-> [id |-> "u1", typ |-> "access", iat |-> 0, exp |-> AccessTTL,
                              key |-> "JWT_SECRET"],
                   refreshToken |-> [id |-> "u1", typ |-> "refresh", iat |-> 0,
                                     exp |-> RefreshTTL, key |-> "JWT_SECRET"],
                   isActive |-> TRUE, lastActivity |-> 0, expiresAt |-> SessionTTL,
                   logoutReason |-> "none"]}
    /\ blacklist = {}
    /\ issued = {[id |-> "u1", typ |-> "access", iat |-> 0, exp |-> AccessTTL,
                  key |-> "JWT_SECRET"],
                 [id |-> "u1", typ |-> "refresh", iat |-> 0, exp |-> RefreshTTL,
                  key |-> "JWT_SECRET"]}
    /\ twoFactor = [u \in UserIds |-> IF u = "u1" THEN enableForUser(NoDoc, 0) ELSE NoDoc]
    /\ codeSeq = BackupCount
    /\ credentials = <<>>
    /\ challenges = {}
    /\ chalSeq = 0
    /\ reqs = <<>>
    /\ env = [refreshSecretSet |-> FALSE]
    /\ resp = [Resp("enable2FA", 200, "enabled") EXCEPT
                  !.user = "u1", !.n = BackupCount,
                  !.token = [id |-> "u1", typ |-> "access", iat |-> 0, exp |-> AccessTTL,
                             key |-> "JWT_SECRET"]]
    /\ hist = [streak |-> [u \in UserIds |-> 0],
               redeemed |-> [u \in UserIds |-> {}],
               compared |-> [u \in UserIds |-> 0],
               passes |-> <<>>,
               overwritten |-> [u \in UserIds |-> NoOTP.code],
               forced |-> {},
               accepted |-> {},
               passwordOk |-> [u \in UserIds |-> FALSE]]

\* the codes a client may type: every code drawn so far in upper and in lower
\* case, and one code not drawn
InputCodes ==
    {CodeOf(i) : i \in 0..(codeSeq - 1)} \cup {toLowerCase(CodeOf(i)) : i \in 0..(codeSeq - 1)}
        \cup {CodeOf(MaxCodes - 1)}

AccessTokens == {s.token : s \in sessions}

TfInstants == {k * OtpTTL + j : k \in 0..TfPeriods, j \in 0..1}

TfLogin == login("u1@x.com", "correct", TfMaxIssued)
TfSendOTP == \E email \in {"u1@x.com", "ghost@x.com"} : sendOTP(email)
TfVerifyOTP == \E code \in OtpCodes : verifyOTPRequest("u1@x.com", code)
TfVerifyBackup == \E code \in InputCodes : verifyBackupCodeRequest("u1@x.com", code)
TfLoginOTP == \E code \in OtpCodes : loginWith2FA("u1@x.com", code, FALSE, TfMaxIssued)
TfLoginBackup == \E code \in InputCodes : loginWith2FA("u1@x.com", code, TRUE, TfMaxIssued)
TfEnable == \E tok \in AccessTokens : enable2FA(tok)
TfDisable == \E tok \in AccessTokens : disable2FA(tok, "correct")
TfRegenerate == \E tok \in AccessTokens : regenerateBackupCodes(tok, "correct")
TfTick == Advance(TfInstants)

\* one-time passwords: issue, guess, expire
NextOtp == TfLogin \/ TfSendOTP \/ TfVerifyOTP \/ TfLoginOTP \/ TfTick

SpecOtp == Init2FA /\ [][NextOtp]_vars

\* backup codes: redeem, regenerate, disable and enable again
NextBackup == TfVerifyBackup \/ TfLoginBackup \/ TfEnable \/ TfDisable \/ TfRegenerate

SpecBackup == Init2FA /\ [][NextBackup]_vars

-----------------------------------------------------------------------------
(* The two-step login of a user with two-factor authentication: password,  *)
(* then one-time password; the user may log out in between.                *)

TsLogout == \E tok \in AccessTokens : logout(tok)

NextTwoStep == TfLogin \/ TfLoginOTP \/ TsLogout \/ TfTick

SpecTwoStep == Init2FA /\ [][NextTwoStep]_vars

-----------------------------------------------------------------------------
(* The public endpoints of a two-factor login: /auth/login with a right or *)
(* a wrong password, /2fa/send-otp and /sessions/login-2fa with an OTP or  *)
(* a backup code.  None of them is behind protect.                         *)

PbWrongLogin == login("u1@x.com", "wrong", TfMaxIssued)

PbTick == Advance(0..PbMaxTick)

NextPublic == TfLogin \/ PbWrongLogin \/ TfSendOTP \/ TfLoginOTP \/ TfLoginBackup \/ PbTick

SpecPublic == Init2FA /\ [][NextPublic]_vars

-----------------------------------------------------------------------------
(* loginWith2FA with a backup code, request by request: each request loads *)
(* the TwoFactor document (await TwoFactor.findByUserId), then runs        *)
(* verifyBackupCode on its own copy and saves it (await twoFactor.save()). *)
(* The save of a changed backupCodes.<i>.used is a $set of that path; it   *)
(* does not raise the document version, so it succeeds whatever the other  *)
(* request has saved in between.                                           *)

ReqIds == {"r1", "r2"}

DropReq(r) == [x \in DOMAIN reqs \ {r} |-> reqs[x]]

\* User.findOne, TwoFactor.findByUserId
loginWith2FALoad(r, email, code) ==
    LET u == findUserByEmail(email) IN
    /\ r \notin DOMAIN reqs
    /\ IF ~TfUsable(u)
       THEN /\ resp' = Resp("loginWith2FA", 401, IF u = NoUser THEN "invalid_credentials"
                                                 ELSE "2fa_not_enabled")
            /\ reqs' = reqs
       ELSE /\ reqs' = (r :> [op |-> "loginWith2FA", user |-> u, code |-> code,
                              doc |-> twoFactor[u]]) @@ reqs
            /\ resp' = resp
    /\ UNCHANGED <<now, users, sessions, blacklist, issued, twoFactor, codeSeq, credentials,
                   challenges, chalSeq, env, hist>>

\* twoFactor.save() after verifyBackupCode on the loaded copy
saveBackupCodes(stored, r) ==
    IF r.ok THEN [stored EXCEPT !.backupCodes[r.index].used = TRUE] ELSE stored

\* verifyBackupCode, save, and the token issuance that follows
loginWith2FAFinish(r, maxIssued) ==
    /\ r \in DOMAIN reqs
    /\ reqs[r].op = "loginWith2FA"
    /\ LET u == reqs[r].user
           rb == verifyBackupCode(reqs[r].doc, reqs[r].code)
       IN
       /\ twoFactor' = [twoFactor EXCEPT ![u] = saveBackupCodes(@, rb)]
       /\ hist' = NoteSecondStep(NoteBackup(u, rb, reqs[r].code), u, rb.ok)
       /\ IF rb.ok
          THEN IssueSession("loginWith2FA", u, maxIssued)
          ELSE /\ resp' = [Resp("loginWith2FA", 401, "invalid_or_used_backup_code")
                           EXCEPT !.user = u, !.arg = reqs[r].code]
               /\ UNCHANGED <<sessions, issued>>
    /\ reqs' = DropReq(r)
    /\ UNCHANGED <<now, users, blacklist, codeSeq, credentials, challenges, chalSeq, env>>

RbLoad == \E r \in ReqIds, code \in InputCodes : loginWith2FALoad(r, "u1@x.com", code)
RbFinish == \E r \in ReqIds : loginWith2FAFinish(r, RbMaxIssued)
RbTick == Advance(0..RbMaxTick)

NextRedeem == RbLoad \/ RbFinish \/ RbTick

SpecRedeem == Init2FA /\ [][NextRedeem]_vars

-----------------------------------------------------------------------------
(* Password logins of one user, request by request.  After the password    *)
(* check a login awaits three store round-trips in turn: Session.create,   *)
(* the find of enforceConcurrentLimit, and its updateMany; the steps of    *)
(* two logins interleave.                                                  *)

\* login up to and including Session.createSession
loginCreateSession(r, email, password, maxIssued) ==
    LET u == findUserByEmail(email)
        tok == generateToken(u)
        rt == generateRefreshToken(u)
    IN
    /\ r \notin DOMAIN reqs
    /\ u # NoUser
    /\ ~isLocked(users[u])
    /\ matchPassword(users[u], password)
    /\ ~(twoFactor[u].exists /\ twoFactor[u].isEnabled)
    /\ Cardinality(issued \cup {tok, rt}) <= maxIssued
    /\ issued' = issued \cup {tok, rt}
    /\ users' = [users EXCEPT ![u] = IF users[u].loginAttempts > 0
                                      THEN resetLoginAttempts(users[u]) ELSE users[u]]
    /\ IF DuplicateKey(sessions, tok, rt)
       THEN /\ sessions' = sessions
            /\ reqs' = reqs
            /\ resp' = [Resp("login", 500, "error") EXCEPT !.user = u]
       ELSE /\ sessions' = createSession(sessions, u, tok, rt, SessionTTL)
            /\ reqs' = (r :> [op |-> "login", user |-> u, token |-> tok, refresh |-> rt,
                              phase |-> "created", evict |-> {}]) @@ reqs
            /\ resp' = resp
    /\ UNCHANGED <<now, blacklist, twoFactor, codeSeq, credentials, challenges, chalSeq,
                   env, hist>>

\* enforceConcurrentLimit: the find, the sort and the slice
loginFindActive(r) ==
    /\ r \in DOMAIN reqs
    /\ reqs[r].op = "login"
    /\ reqs[r].phase = "created"
    /\ \E K \in EvictionChoices(sessions, reqs[r].user, MaxSessionsPerUser) :
          reqs' = [reqs EXCEPT ![r].phase = "found", ![r].evict = K]
    /\ UNCHANGED <<now, users, sessions, blacklist, issued, twoFactor, codeSeq, credentials,
                   challenges, chalSeq, env, resp, hist>>

\* enforceConcurrentLimit: the updateMany on the tokens of the slice, and the response
loginEvict(r) ==
    /\ r \in DOMAIN reqs
    /\ reqs[r].op = "login"
    /\ reqs[r].phase = "found"
    /\ sessions' = enforceConcurrentLimit(sessions, reqs[r].evict)
    /\ resp' = [Resp("login", 200, "success") EXCEPT
                   !.user = reqs[r].user, !.token = reqs[r].token,
                   !.refresh = reqs[r].refresh, !.n = Cardinality(reqs[r].evict)]
    /\ reqs' = DropReq(r)
    /\ UNCHANGED <<now, users, blacklist, issued, twoFactor, codeSeq, credentials,
                   challenges, chalSeq, env, hist>>

RcCreate == \E r \in ReqIds : loginCreateSession(r, "u1@x.com", "correct", RcMaxIssued)
RcFind == \E r \in ReqIds : loginFindActive(r)
RcEvict == \E r \in ReqIds : loginEvict(r)
RcTick == Advance(0..RcMaxTick)

NextLoginRace == RcCreate \/ RcFind \/ RcEvict \/ RcTick

SpecLoginRace == Init /\ [][NextLoginRace]_vars

-----------------------------------------------------------------------------
(* One-time passwords, request by request.  verifyOTP (the controller) and *)
(* loginWith2FA each load the TwoFactor document, run verifyOTP on their   *)
(* own copy, and save it.  The save writes the paths the copy changed:     *)
(* $set tempOTP.attempts after a wrong guess, $unset tempOTP after the     *)
(* right one, nothing when verifyOTP returned before the increment; it     *)
(* does not check the document version.                                    *)

\* twoFactor.save() after verifyOTP on the loaded copy
saveTempOTP(stored, r) ==
    IF ~r.compared THEN stored
    ELSE IF r.ok THEN [stored EXCEPT !.tempOTP = NoOTP]
    ELSE [stored EXCEPT !.tempOTP.attempts = r.tf.tempOTP.attempts]

\* the one-time password a copy of the document holds: its code and expiry
OtpOf(u, doc) == [user |-> u, code |-> doc.tempOTP.code, expiresAt |-> doc.tempOTP.expiresAt]

\* observation: the comparison, and the one-time passwords accepted since the
\* last one was issued
NoteOTPAccepted(u, doc, r) ==
    [NoteOTP(u, r) EXCEPT !.accepted = IF r.ok THEN @ \cup {OtpOf(u, doc)}
                                       ELSE @]

\* verifyOTP (controller): User.findOne, TwoFactor.findByUserId
verifyOTPLoad(r, email, code) ==
    LET u == findUserByEmail(email) IN
    /\ r \notin DOMAIN reqs
    /\ IF ~TfUsable(u)
       THEN /\ resp' = Resp("verifyOTP", 401, "invalid_code")
            /\ reqs' = reqs
       ELSE /\ reqs' = (r :> [op |-> "verifyOTP", user |-> u, code |-> code,
                              doc |-> twoFactor[u]]) @@ reqs
            /\ resp' = resp
    /\ UNCHANGED <<now, users, sessions, blacklist, issued, twoFactor, codeSeq, credentials,
                   challenges, chalSeq, env, hist>>

\* verifyOTP (controller): verifyOTP on the copy, save, respond
verifyOTPFinish(r) ==
    /\ r \in DOMAIN reqs
    /\ reqs[r].op = "verifyOTP"
    /\ LET u == reqs[r].user
           ro == verifyOTP(reqs[r].doc, reqs[r].code)
       IN
       /\ twoFactor' = [twoFactor EXCEPT ![u] = saveTempOTP(@, ro)]
       /\ hist' = NoteOTPAccepted(u, reqs[r].doc, ro)
       /\ resp' = [Resp("verifyOTP", IF ro.ok THEN 200 ELSE 401,
                        IF ro.ok THEN "verified" ELSE "invalid_or_expired_code")
                   EXCEPT !.user = u, !.arg = reqs[r].code]
    /\ reqs' = DropReq(r)
    /\ UNCHANGED <<now, users, sessions, blacklist, issued, codeSeq, credentials, challenges,
                   chalSeq, env>>

\* loginWith2FA without useBackupCode: verifyOTP on the copy, save, and the
\* token issuance that follows
loginWith2FAFinishOTP(r, maxIssued) ==
    /\ r \in DOMAIN reqs
    /\ reqs[r].op = "loginWith2FA"
    /\ LET u == reqs[r].user
           ro == verifyOTP(reqs[r].doc, reqs[r].code)
       IN
       /\ twoFactor' = [twoFactor EXCEPT ![u] = saveTempOTP(@, ro)]
       /\ hist' = NoteSecondStep(NoteOTPAccepted(u, reqs[r].doc, ro), u, ro.ok)
       /\ IF ro.ok
          THEN IssueSession("loginWith2FA", u, maxIssued)
          ELSE /\ resp' = [Resp("loginWith2FA", 401, "invalid_or_expired_code")
                           EXCEPT !.user = u, !.arg = reqs[r].code]
               /\ UNCHANGED <<sessions, issued>>
    /\ reqs' = DropReq(r)
    /\ UNCHANGED <<now, users, blacklist, codeSeq, credentials, challenges, chalSeq, env>>

RoLogin == login("u1@x.com", "correct", RoMaxIssued)
RoVerifyLoad == \E r \in ReqIds, code \in OtpCodes : verifyOTPLoad(r, "u1@x.com", code)
RoVerifyFinish == \E r \in ReqIds : verifyOTPFinish(r)
RoLoginLoad == \E r \in {"r1"}, code \in OtpCodes : loginWith2FALoad(r, "u1@x.com", code)
RoLoginFinish == \E r \in ReqIds : loginWith2FAFinishOTP(r, RoMaxIssued)
RoTick == Advance(0..RoMaxTick)

NextOtpRace ==
    RoLogin \/ RoVerifyLoad \/ RoVerifyFinish \/ RoLoginLoad \/ RoLoginFinish \/ RoTick

SpecOtpRace == Init2FA /\ [][NextOtpRace]_vars

-----------------------------------------------------------------------------
(* Password logins of one user, request by request: a login loads the user *)
(* document (await User.findOne), and after the awaited bcrypt comparison  *)
(* decides on the copy it loaded and issues its update.                    *)

\* incLoginAttempts on a loaded copy: the update it sends is applied to the
\* stored document ($inc is atomic, the lock decision uses the copy)
incLoginAttemptsUpdate(stored, copy) ==
    IF copy.lockUntil # NoDate /\ copy.lockUntil < now
    THEN [stored EXCEPT !.loginAttempts = 1, !.lockUntil = NoDate]
    ELSE [stored EXCEPT !.loginAttempts = stored.loginAttempts + 1,
                        !.lockUntil = IF copy.loginAttempts + 1 >= MaxAttempts /\ ~isLocked(copy)
                                      THEN now + LockTime ELSE stored.lockUntil]

\* User.findOne({ email }).select('+password +loginAttempts +lockUntil')
loginLoad(r, email, password) ==
    LET u == findUserByEmail(email) IN
    /\ r \notin DOMAIN reqs
    /\ IF u = NoUser
       THEN /\ resp' = Resp("login", 401, "invalid_credentials")
            /\ reqs' = reqs
       ELSE /\ reqs' = (r :> [op |-> "loginPassword", user |-> u, password |-> password,
                              doc |-> users[u]]) @@ reqs
            /\ resp' = resp
    /\ UNCHANGED <<now, users, sessions, blacklist, issued, twoFactor, codeSeq, credentials,
                   challenges, chalSeq, env, hist>>

\* the rest of login on the loaded copy
loginFinish(r, maxIssued) ==
    /\ r \in DOMAIN reqs
    /\ reqs[r].op = "loginPassword"
    /\ LET u == reqs[r].user
           copy == reqs[r].doc
       IN
       IF isLocked(copy)
       THEN /\ resp' = [Resp("login", 423, "account_locked") EXCEPT
                           !.user = u, !.n = copy.lockUntil - now, !.arg = reqs[r].password]
            /\ UNCHANGED <<users, sessions, issued, twoFactor>>
       ELSE IF ~matchPassword(copy, reqs[r].password)
       THEN /\ users' = [users EXCEPT ![u] = incLoginAttemptsUpdate(users[u], copy)]
            /\ resp' = [Resp("login", 401, "invalid_credentials") EXCEPT
                           !.user = u,
                           !.n = IF MaxAttempts - (copy.loginAttempts + 1) > 0
                                 THEN MaxAttempts - (copy.loginAttempts + 1) ELSE 0]
            /\ UNCHANGED <<sessions, issued, twoFactor>>
       ELSE /\ users' = [users EXCEPT ![u] = IF copy.loginAttempts > 0
                                             THEN resetLoginAttempts(users[u]) ELSE users[u]]
            /\ IF twoFactor[u].exists /\ twoFactor[u].isEnabled
               THEN \E code \in OtpCodes : LoginRequires2FA(u, code)
               ELSE IssueSession("login", u, maxIssued) /\ UNCHANGED twoFactor
    /\ reqs' = DropReq(r)
    /\ UNCHANGED <<now, blacklist, codeSeq, credentials, challenges, chalSeq, env, hist>>

LkLoad == \E r \in ReqIds, password \in Passwords : loginLoad(r, "u1@x.com", password)
LkFinish == \E r \in ReqIds : loginFinish(r, LkMaxIssued)
LkTick == Advance({k * LockTime + k : k \in 0..LkSteps})

NextLockRace == LkLoad \/ LkFinish \/ LkTick

SpecLockRace == Init /\ [][NextLockRace]_vars

-----------------------------------------------------------------------------
(* WebAuthn authentication ceremony.                                       *)

NoCredential == [userId |-> NoUser, counter |-> 0, usageCount |-> 0, isActive |-> FALSE]

\* WebAuthnCredential.findByCredentialId: findOne({credentialId, isActive: true})
findByCredentialId(credentialId) ==
    IF credentialId \in DOMAIN credentials /\ credentials[credentialId].isActive
    THEN credentials[credentialId] ELSE NoCredential

\* WebAuthnCredential.findByUserId
findByUserId(u) == {c \in DOMAIN credentials : credentials[c].userId = u /\ credentials[c].isActive}

\* WebAuthnChallenge.createChallenge
createChallenge(u, challenge, type, expiresInMinutes) ==
    challenges \cup {[userId |-> u, challenge |-> challenge, type |-> type,
                      expiresAt |-> now + expiresInMinutes]}

\* the findOne of verifyAndConsume
findChallenge(u, challenge, type) ==
    {c \in challenges : c.userId = u /\ c.challenge = challenge /\ c.type = type
                        /\ c.expiresAt > now}

\* The controller leaves the decision on the assertion to the library call
\* verifyAuthenticationResponse({response, expectedChallenge, ..., authenticator}).
\* @simplewebauthn/server throws when the signature does not verify, and when
\* (counter > 0 || authenticator.counter > 0) && counter <= authenticator.counter.
verifyAuthenticationResponse(assertion, authenticator) ==
    IF ~assertion.sigValid THEN [verified |-> FALSE, newCounter |-> authenticator.counter]
    ELSE IF (assertion.counter > 0 \/ authenticator.counter > 0)
            /\ assertion.counter <= authenticator.counter
         THEN [verified |-> FALSE, newCounter |-> authenticator.counter]
    ELSE [verified |-> TRUE, newCounter |-> assertion.counter]

\* dbCredential.counter = newCounter; dbCredential.updateUsage()
updateUsage(dbCredential, newCounter) ==
    [dbCredential EXCEPT !.counter = newCounter, !.usageCount = @ + 1]

WaFrame == <<now, users, blacklist, twoFactor, codeSeq, env>>

\* webauthn.controller generateAuthenticationOptions
generateAuthenticationOptions(email) ==
    LET u == findUserByEmail(email) IN
    /\ IF u = NoUser
       THEN /\ resp' = Resp("authOptions", 200, "options_null")
            /\ UNCHANGED <<challenges, chalSeq>>
       ELSE IF findByUserId(u) = {}
       THEN /\ resp' = [Resp("authOptions", 404, "no_credentials") EXCEPT !.user = u]
            /\ UNCHANGED <<challenges, chalSeq>>
       ELSE /\ chalSeq < WaMaxChallenges
            /\ challenges' = createChallenge(u, chalSeq, "authentication", ChallengeTTL)
            /\ chalSeq' = chalSeq + 1
            /\ resp' = [Resp("authOptions", 200, "options") EXCEPT !.user = u, !.n = chalSeq]
    /\ UNCHANGED <<sessions, issued, credentials, reqs, hist>>
    /\ UNCHANGED WaFrame

\* verifyAuthentication up to the findOne of verifyAndConsume
verifyAuthenticationFind(r, email, credentialId, assertion) ==
    LET u == findUserByEmail(email)
        dbCredential == findByCredentialId(credentialId)
        found == IF u = NoUser THEN {} ELSE findChallenge(u, assertion.challenge, "authentication")
    IN
    /\ r \notin DOMAIN reqs
    /\ IF u = NoUser
       THEN resp' = Resp("verifyAuthentication", 401, "authentication_failed") /\ reqs' = reqs
       ELSE IF dbCredential = NoCredential \/ dbCredential.userId # u
       THEN /\ resp' = [Resp("verifyAuthentication", 401, "credential_not_found") EXCEPT
                           !.user = u]
            /\ reqs' = reqs
       ELSE IF found = {}
       THEN /\ resp' = [Resp("verifyAuthentication", 400, "invalid_or_expired_challenge")
                        EXCEPT !.user = u, !.n = assertion.challenge]
            /\ reqs' = reqs
       ELSE /\ reqs' = (r :> [op |-> "verifyAuthentication", user |-> u,
                              credentialId |-> credentialId, dbCredential |-> dbCredential,
                              challengeDoc |-> CHOOSE c \in found : TRUE,
                              assertion |-> assertion]) @@ reqs
            /\ resp' = resp
    /\ UNCHANGED <<sessions, issued, credentials, challenges, chalSeq, hist>>
    /\ UNCHANGED WaFrame

NotePass(challenge) ==
    [hist EXCEPT !.passes = (challenge :> (IF challenge \in DOMAIN @ THEN @[challenge] + 1 ELSE 1))
                             @@ @]

\* challengeDoc.deleteOne(), verifyAuthenticationResponse, the counter update,
\* and the token issuance
verifyAuthenticationFinish(r, maxIssued) ==
    /\ r \in DOMAIN reqs
    /\ reqs[r].op = "verifyAuthentication"
    /\ LET f == reqs[r]
           v == verifyAuthenticationResponse(
                    f.assertion, [counter |-> f.dbCredential.counter])
       IN
       /\ challenges' = challenges \ {f.challengeDoc}
       /\ hist' = NotePass(f.assertion.challenge)
       /\ IF v.verified
          THEN /\ credentials' = [credentials EXCEPT
                                     ![f.credentialId] = updateUsage(f.dbCredential, v.newCounter)]
               /\ IssueSession("verifyAuthentication", f.user, maxIssued)
          ELSE /\ resp' = [Resp("verifyAuthentication", 401, "verification_failed") EXCEPT
                              !.user = f.user, !.n = f.assertion.counter]
               /\ UNCHANGED <<credentials, sessions, issued>>
    /\ reqs' = DropReq(r)
    /\ UNCHANGED chalSeq
    /\ UNCHANGED WaFrame

\* one credential of u1 registered, with the counter its registration stored
\* (registrationInfo.counter || 0)
InitWebAuthn ==
    /\ now = 0
    /\ users = [u \in UserIds |-> NewUser]
    /\ sessions = {}
    /\ blacklist = {}
    /\ issued = {}
    /\ twoFactor = [u \in UserIds |-> NoDoc]
    /\ codeSeq = 0
    /\ credentials = [id \in {"cred1"} |->
                         [userId |-> "u1", counter |-> 0, usageCount |-> 0,
                          isActive |-> TRUE]]
    /\ challenges = {}
    /\ chalSeq = 0
    /\ reqs = <<>>
    /\ env = [refreshSecretSet |-> FALSE]
    /\ resp = Resp("none", 0, "none")
    /\ hist = [streak |-> [u \in UserIds |-> 0],
               redeemed |-> [u \in UserIds |-> {}],
               compared |-> [u \in UserIds |-> 0],
               passes |-> <<>>,
               overwritten |-> [u \in UserIds |-> NoOTP.code],
               forced |-> {},
               accepted |-> {},
               passwordOk |-> [u \in UserIds |-> FALSE]]

Assertions ==
    [challenge : 0..(WaMaxChallenges - 1), counter : 0..WaMaxCounter, sigValid : BOOLEAN]

WaOptions == \E email \in Emails : generateAuthenticationOptions(email)
WaFind ==
    \E r \in ReqIds, email \in {"u1@x.com", "u2@x.com"}, a \in Assertions :
        verifyAuthenticationFind(r, email, "cred1", a)
WaFinish == \E r \in ReqIds : verifyAuthenticationFinish(r, WaMaxIssued)
WaTick == Advance({k * ChallengeTTL + j : k \in 0..WaPeriods, j \in 0..1})

NextWebAuthn == WaOptions \/ WaFind \/ WaFinish \/ WaTick

SpecWebAuthn == InitWebAuthn /\ [][NextWebAuthn]_vars

-----------------------------------------------------------------------------
(* WebAuthn registration ceremony (both handlers behind protect).          *)

RegistrationChallenges(u) == {c \in challenges : c.userId = u /\ c.type = "registration"}

\* webauthn.controller generateRegistrationOptions
generateRegistrationOptions(tok) ==
    LET p == protect(tok)
        u == tok.id
    IN
    /\ sessions' = p.sess
    /\ IF p.kind # "next"
       THEN /\ resp' = Rejected("registrationOptions", tok, p)
            /\ UNCHANGED <<challenges, chalSeq>>
       ELSE /\ chalSeq < RgMaxChallenges
            /\ challenges' = (challenges \ RegistrationChallenges(u))
                                 \cup {[userId |-> u, challenge |-> chalSeq,
                                        type |-> "registration",
                                        expiresAt |-> now + ChallengeTTL]}
            /\ chalSeq' = chalSeq + 1
            /\ resp' = [Resp("registrationOptions", 200, "options") EXCEPT
                           !.user = u, !.token = tok, !.n = chalSeq]
    /\ UNCHANGED <<credentials, issued, reqs, hist>>
    /\ UNCHANGED WaFrame

\* findOne({userId, type: 'registration', expiresAt: {$gt: new Date()}})
findRegistrationChallenge(u) == {c \in RegistrationChallenges(u) : c.expiresAt > now}

\* verifyRegistrationResponse({response, expectedChallenge, ...}): the library
\* throws on a challenge other than the expected one and on a malformed
\* attestation, and reports verified: false for an attestation that fails
VerifyOutcomes == {"verified", "not_verified", "throws"}

verifyRegistrationResponse(response, expectedChallenge) ==
    IF response.challenge # expectedChallenge THEN "throws" ELSE response.attestation

challengesAfterVerifyKeptOnThrow(storedChallenge, outcome) ==
    IF outcome = "throws" THEN challenges ELSE challenges \ {storedChallenge}

\* storedChallenge.deleteOne(), in the catch and after the verification
challengesAfterVerify(storedChallenge, outcome) == challenges \ {storedChallenge}

\* webauthn.controller verifyRegistration
verifyRegistration(tok, response) ==
    LET p == protect(tok)
        u == tok.id
        found == findRegistrationChallenge(u)
    IN
    /\ sessions' = p.sess
    /\ IF p.kind # "next"
       THEN /\ resp' = Rejected("verifyRegistration", tok, p)
            /\ UNCHANGED <<challenges, credentials, hist>>
       ELSE IF found = {}
       THEN /\ resp' = [Resp("verifyRegistration", 400, "invalid_or_expired_challenge")
                        EXCEPT !.user = u, !.n = response.challenge]
            /\ UNCHANGED <<challenges, credentials, hist>>
       ELSE LET storedChallenge == CHOOSE c \in found : TRUE
                outcome == verifyRegistrationResponse(response, storedChallenge.challenge)
            IN
            /\ challenges' = challengesAfterVerify(storedChallenge, outcome)
            /\ hist' = NotePass(storedChallenge.challenge)
            /\ IF outcome # "verified"
               THEN /\ resp' = [Resp("verifyRegistration", 400,
                                     IF outcome = "throws" THEN "verify_error"
                                     ELSE "verification_failed")
                                EXCEPT !.user = u, !.n = storedChallenge.challenge]
                    /\ credentials' = credentials
               ELSE IF response.credentialId \in DOMAIN credentials
               THEN /\ resp' = [Resp("verifyRegistration", 500, "error") EXCEPT
                                   !.user = u, !.n = storedChallenge.challenge]
                    /\ credentials' = credentials
               ELSE /\ resp' = [Resp("verifyRegistration", 201, "registered") EXCEPT
                                   !.user = u, !.n = storedChallenge.challenge,
                                   !.arg = response.credentialId]
                    /\ credentials' = (response.credentialId :>
                                          [userId |-> u, counter |-> 0, usageCount |-> 0,
                                           isActive |-> TRUE]) @@ credentials
    /\ UNCHANGED <<issued, chalSeq, reqs>>
    /\ UNCHANGED WaFrame

RegistrationResponses ==
    [challenge : 0..(RgMaxChallenges - 1), attestation : VerifyOutcomes,
     credentialId : {"cred1"}]

RgLogin == login("u1@x.com", "correct", RgMaxIssued)
RgOptions == \E tok \in SessionTokens : generateRegistrationOptions(tok)
RgVerify == \E tok \in SessionTokens, response \in RegistrationResponses :
                verifyRegistration(tok, response)
RgTick == Advance({k * ChallengeTTL + j : k \in 0..RgPeriods, j \in 0..1})

NextRegistration == RgLogin \/ RgOptions \/ RgVerify \/ RgTick \/ TTLMonitor

SpecRegistration == Init /\ [][NextRegistration]_vars

-----------------------------------------------------------------------------
(* C1: for every user, after five consecutive wrong-password logins (no   *)
(* successful login in between) the account is locked, and the next login  *)
(* fails with the account-locked result even when the password is correct, *)
(* for as long as lockUntil is in the future.                              *)

C1_LockoutAfterFive ==
    [][\A u \in UserIds, password \in Passwords :
          LET email == CHOOSE e \in Emails : findUserByEmail(e) = u IN
          login(email, password, LgMaxIssued)
          => /\ (hist.streak[u] = MaxAttempts - 1 /\ hist'.streak[u] = MaxAttempts)
                  => users'[u].lockUntil = now + LockTime
             /\ (hist.streak[u] >= MaxAttempts /\ users[u].lockUntil # NoDate
                 /\ users[u].lockUntil > now)
                  => /\ resp'.status = 423
                     /\ resp'.kind = "account_locked"
                     /\ users' = users
                     /\ sessions' = sessions
                     /\ issued' = issued]_vars

\* the correct password was refused after five wrong ones, the lock still running
C1_WitnessLocked ==
    /\ resp.op = "login"
    /\ resp.status = 423
    /\ resp.arg = "correct"
    /\ hist.streak[resp.user] = MaxAttempts
    /\ users[resp.user].loginAttempts = MaxAttempts
    /\ users[resp.user].lockUntil > now
    /\ resp.n > 0
    /\ resp.n < LockTime

(* C2: an authenticated request whose token is in the blacklist is         *)
(* rejected as invalidated, whatever the token's remaining lifetime, its   *)
(* signature, its user or its session; the membership test is the first    *)
(* check, so the request changes nothing (no lastActivity update).         *)

C2_BlacklistedRejected ==
    [][\A tok \in Presentable :
          (isBlacklisted(blacklist, tok) /\ (Request(tok) \/ logout(tok) \/ logoutAllSessions(tok)))
          => /\ resp'.status = 401
             /\ resp'.kind = "blacklisted"
             /\ sessions' = sessions
             /\ blacklist' = blacklist]_vars

\* a blacklisted token with lifetime left, whose session record exists, was refused
C2_Witness ==
    /\ resp.op = "request"
    /\ resp.kind = "blacklisted"
    /\ resp.status = 401
    /\ isBlacklisted(blacklist, resp.token)
    /\ now < resp.token.exp
    /\ \E s \in sessions : s.token = resp.token

(* C3: an authenticated request is rejected whenever the session owning    *)
(* its access token is inactive, past its expiry or missing, even if the   *)
(* signature verifies and the token is not blacklisted.                    *)

C3_SessionRequired ==
    [][\A tok \in Presentable :
          (tok.typ = "access" /\ FindValid(sessions, tok) = {} /\ Request(tok))
          => resp'.status = 401]_vars

(* C4: with the cap at 3, when a user with 3 active unexpired sessions     *)
(* completes a 4th login, the prior session with the oldest lastActivity   *)
(* is invalidated with reason security, enforceConcurrentLimit returns 1,  *)
(* the other three sessions (the new one among them) stay active, and      *)
(* validateSession on the evicted token returns null from then on.         *)

OldestOf(active) ==
    {o \in active : \A s \in active \ {o} : o.lastActivity < s.lastActivity}

C4_EvictionStep ==
    \A o \in OldestOf(ActiveSessions(sessions, "u1")) :
        (/\ Cardinality(ActiveSessions(sessions, "u1")) = MaxSessionsPerUser
         /\ CapLogin
         /\ resp'.status = 200)
        => /\ resp'.n = 1
           /\ SetInactive(o, "security") \in sessions'
           /\ FindValid(sessions', o.token) = {}
           /\ \A s \in ActiveSessions(sessions, "u1") \ {o} : s \in sessions'
           /\ \E s \in sessions' : s.token = resp'.token /\ s.isActive
           /\ Cardinality({s \in sessions' : s.userId = "u1" /\ s.isActive}) = MaxSessionsPerUser

C4_StaysInvalid ==
    \A s \in sessions :
        (~s.isActive /\ s.logoutReason = "security") => FindValid(sessions', s.token) = {}

\* the eviction itself, which the code performs as stated
C4_Eviction == [][C4_EvictionStep]_vars

\* C4: the 4th login evicts the oldest session, returns 1, keeps the other
\* three active, and the evicted token never validates again
C4_CapEviction == [][C4_EvictionStep /\ C4_StaysInvalid]_vars

C4_WitnessEvicted ==
    /\ resp.op = "login" /\ resp.status = 200 /\ resp.n = 1
    /\ Cardinality({s \in sessions : s.isActive}) = MaxSessionsPerUser
    /\ \E s \in sessions : ~s.isActive /\ s.logoutReason = "security"

(* C5: in a sequential execution, once verifyBackupCode has accepted a     *)
(* backup code of a user, every later verifyBackupCode call with the same  *)
(* code, in any letter case, is rejected and marks nothing.                *)

C5_BackupCodeSingleUse ==
    [][\A code \in InputCodes :
          (/\ toUpperCase(code) \in hist.redeemed["u1"]
           /\ \/ verifyBackupCodeRequest("u1@x.com", code)
              \/ loginWith2FA("u1@x.com", code, TRUE, TfMaxIssued))
          => /\ resp'.status = 401
             /\ twoFactor' = twoFactor
             /\ sessions' = sessions]_vars

\* a code redeemed earlier was presented again in lower case and refused
C5_WitnessReplayRefused ==
    /\ resp.op = "verifyBackupCode"
    /\ resp.status = 401
    /\ resp.arg # toUpperCase(resp.arg)
    /\ toUpperCase(resp.arg) \in hist.redeemed["u1"]
    /\ TfUsable("u1")
    /\ \E i \in 1..Len(twoFactor["u1"].backupCodes) :
          twoFactor["u1"].backupCodes[i] = [code |-> toUpperCase(resp.arg), used |-> TRUE]

(* C6: when two requests redeem the same unused backup code of one user    *)
(* concurrently, at most one of them succeeds: a request whose code has    *)
(* been redeemed by the time it verifies and saves is refused.             *)

C6_AtMostOneRedemption ==
    [][\A r \in ReqIds :
          (/\ r \in DOMAIN reqs
           /\ toUpperCase(reqs[r].code) \in hist.redeemed["u1"]
           /\ loginWith2FAFinish(r, RbMaxIssued))
          => resp'.status # 200]_vars

(* C7: an OTP is rejected by verifyOTP at any time later than its expiry,  *)
(* even when the submitted code equals the stored code; the rejection does *)
(* not increment the attempt count and does not clear the pending OTP.     *)

C7_ExpiredOtpRejected ==
    [][\A code \in OtpCodes :
          (/\ TfUsable("u1")
           /\ twoFactor["u1"].tempOTP.code # "none"
           /\ now > twoFactor["u1"].tempOTP.expiresAt
           /\ \/ verifyOTPRequest("u1@x.com", code)
              \/ loginWith2FA("u1@x.com", code, FALSE, TfMaxIssued))
          => /\ resp'.status = 401
             /\ twoFactor' = twoFactor
             /\ sessions' = sessions]_vars

\* the stored code itself was refused one minute after the expiry
C7_WitnessExpired ==
    /\ resp.op = "verifyOTP"
    /\ resp.status = 401
    /\ resp.arg = twoFactor["u1"].tempOTP.code
    /\ now = twoFactor["u1"].tempOTP.expiresAt + 1
    /\ twoFactor["u1"].tempOTP.attempts < OtpMaxAttempts

(* C8: in a sequential execution, for one pending OTP, each verifyOTP call *)
(* that reaches the comparison increments the stored attempt count by one, *)
(* once the count is 5 or more every further call fails even with the      *)
(* correct code, and at most 5 guesses are compared against one OTP.       *)

C8_Counted ==
    /\ hist.compared["u1"] <= OtpMaxAttempts
    /\ twoFactor["u1"].tempOTP.code # "none"
         => twoFactor["u1"].tempOTP.attempts = hist.compared["u1"]

C8_Step ==
    \A code \in OtpCodes :
        (/\ TfUsable("u1")
         /\ twoFactor["u1"].tempOTP.code # "none"
         /\ \/ verifyOTPRequest("u1@x.com", code)
            \/ loginWith2FA("u1@x.com", code, FALSE, TfMaxIssued))
        => /\ twoFactor["u1"].tempOTP.attempts >= OtpMaxAttempts
                => resp'.status = 401 /\ twoFactor' = twoFactor /\ hist' = hist
           /\ hist'.compared["u1"] = hist.compared["u1"] + 1
                => \/ twoFactor'["u1"].tempOTP.attempts = twoFactor["u1"].tempOTP.attempts + 1
                   \/ code = twoFactor["u1"].tempOTP.code /\ twoFactor'["u1"].tempOTP = NoOTP
           /\ (resp'.status = 401 /\ now <= twoFactor["u1"].tempOTP.expiresAt
               /\ twoFactor["u1"].tempOTP.attempts < OtpMaxAttempts)
                => twoFactor'["u1"].tempOTP.attempts = twoFactor["u1"].tempOTP.attempts + 1

\* C8: at most 5 guesses are compared against one issued OTP
C8_OtpAttemptsCapped == [] C8_Counted /\ [][C8_Step]_vars

\* the correct code was refused, unexpired, after five compared guesses
C8_WitnessSixthGuess ==
    /\ resp.op = "verifyOTP"
    /\ resp.status = 401
    /\ resp.arg = twoFactor["u1"].tempOTP.code
    /\ now <= twoFactor["u1"].tempOTP.expiresAt
    /\ twoFactor["u1"].tempOTP.attempts = OtpMaxAttempts
    /\ hist.compared["u1"] = OtpMaxAttempts

(* C9: a WebAuthn authentication whose assertion carries a signature      *)
(* counter less than or equal to the counter stored for the credential is  *)
(* rejected, issues no tokens, creates no session and leaves the stored    *)
(* counter unchanged, even when the signature verifies; no credential is   *)
(* flagged counter-exempt (the schema has no such flag).                   *)

C9_ReplayRejected ==
    [][\A r \in ReqIds :
          (/\ r \in DOMAIN reqs
           /\ reqs[r].assertion.counter <= credentials[reqs[r].credentialId].counter
           /\ verifyAuthenticationFinish(r, WaMaxIssued))
          => /\ resp'.status # 200
             /\ sessions' = sessions
             /\ issued' = issued
             /\ credentials' = credentials]_vars

(* C10: each stored WebAuthn challenge is consumed at most once: under     *)
(* every interleaving of the find and delete steps of verifyAndConsume, at *)
(* most one verification passes the challenge check of one challenge.      *)

C10_ChallengeConsumedOnce ==
    \A c \in DOMAIN hist.passes : hist.passes[c] <= 1

(* C11: for a user with 2FA enabled, a password login with the correct    *)
(* password returns requires2FA, no access or refresh token, and creates   *)
(* no session; a following loginWith2FA with the correct OTP within its    *)
(* TTL returns both tokens, and the user, who had no active session, then  *)
(* has exactly one (the tokens minted are new to the sessions collection). *)

C11_PasswordStep ==
    (TfUsable("u1") /\ ~isLocked(users["u1"]) /\ TfLogin)
    => /\ resp'.status = 200
       /\ resp'.kind = "requires2FA"
       /\ resp'.token = NoToken
       /\ resp'.refresh = NoToken
       /\ sessions' = sessions
       /\ issued' = issued
       /\ twoFactor'["u1"].tempOTP.code # "none"

C11_OtpStep ==
    \A code \in OtpCodes :
        (/\ TfUsable("u1")
         /\ code = twoFactor["u1"].tempOTP.code
         /\ now <= twoFactor["u1"].tempOTP.expiresAt
         /\ twoFactor["u1"].tempOTP.attempts < OtpMaxAttempts
         /\ ActiveSessions(sessions, "u1") = {}
         /\ ~DuplicateKey(sessions, generateToken("u1"), generateRefreshToken("u1"))
         /\ loginWith2FA("u1@x.com", code, FALSE, TfMaxIssued))
        => /\ resp'.status = 200
           /\ resp'.token \in issued' \ issued
           /\ resp'.refresh \in issued' \ issued
           /\ Cardinality(ActiveSessions(sessions', "u1")) = 1
           /\ \A x \in ActiveSessions(sessions', "u1") : x.token = resp'.token

C12_SameShape ==
    [][\A known \in Emails, unknown \in Emails :
          (/\ findUserByEmail(unknown) = NoUser
           /\ findUserByEmail(known) # NoUser
           /\ findByUserId(findUserByEmail(known)) = {}
           /\ generateAuthenticationOptions(known))
          => /\ resp'.status = Resp("authOptions", 200, "options_null").status
             /\ AuthOptionsFields(resp'.kind) = AuthOptionsFields("options_null")]_vars

(* C13: after logoutAllSessions completes, every session of the user other *)
(* than the one owning the request's token is inactive and its access      *)
(* token is rejected by every later authenticated request, while the       *)
(* current session is active and its token is still honoured.              *)

C13_LogoutAllStep ==
    \A tok \in SessionTokens :
        (logoutAllSessions(tok) /\ resp'.status = 200)
        => /\ \A x \in sessions' : (x.userId = tok.id /\ x.token # tok) => ~x.isActive
           /\ \E x \in sessions' : x.token = tok /\ x.isActive

C13_OthersRejected ==
    \A tok \in SessionTokens :
        (/\ \E x \in sessions : x.token = tok /\ ~x.isActive /\ x.logoutReason = "forced"
         /\ Request(tok))
        => resp'.status = 401

C13_LogoutAllRevokes == [][C13_LogoutAllStep /\ C13_OthersRejected]_vars

(* C14: a successful refreshToken call replaces the access token of the   *)
(* one session that owns the presented refresh token with a newly minted   *)
(* token and updates its lastActivity, and leaves unchanged the session's  *)
(* refresh token, userId, expiresAt and active flag, the number of         *)
(* sessions, and every other session.                                      *)

C14_RefreshFrame ==
    [][\A rt \in Presentable :
          (refreshToken(rt, RfMaxIssued) /\ resp'.status = 200)
          => \E old \in sessions, new \in sessions' :
                /\ old.refreshToken = rt
                /\ new.refreshToken = rt
                /\ new.token = resp'.token
                /\ new.token.typ = "access" /\ new.token.iat = now
                /\ new.lastActivity = now
                /\ new.userId = old.userId
                /\ new.expiresAt = old.expiresAt
                /\ new.isActive = old.isActive
                /\ Cardinality(sessions') = Cardinality(sessions)
                /\ sessions' \ {new} = sessions \ {old}]_vars

\* a session holds a token minted after its creation, beside an untouched session
C14_WitnessRotated ==
    /\ resp.op = "refreshToken"
    /\ resp.status = 200
    /\ \E x \in sessions :
          /\ x.token = resp.token
          /\ x.refreshToken = resp.refresh
          /\ x.token.iat > x.refreshToken.iat
    /\ \E y \in sessions : y.token # resp.token /\ y.isActive

(* C15: every operation that generates backup codes for a user (enable2FA, *)
(* also on an existing TwoFactor record, and regenerateBackupCodes)        *)
(* replaces the full set: afterwards the stored set consists of exactly    *)
(* the newly returned codes, so no code of an earlier set can be redeemed. *)

C15_GenerationReplaces ==
    [][\A tok \in AccessTokens :
          (/\ enable2FA(tok) \/ regenerateBackupCodes(tok, "correct")
           /\ resp'.status = 200)
          => /\ Len(twoFactor'[tok.id].backupCodes) = BackupCount
             /\ {twoFactor'[tok.id].backupCodes[i].code :
                     i \in 1..Len(twoFactor'[tok.id].backupCodes)}
                  = {CodeOf(i) : i \in codeSeq..(codeSeq' - 1)}
             /\ \A code \in InputCodes :
                   verifyBackupCode(twoFactor'[tok.id], code).ok
                       => toUpperCase(code) \in {CodeOf(i) : i \in codeSeq..(codeSeq' - 1)}]_vars

(* C16: each user has at most one pending OTP: issuing an OTP (from login  *)
(* or sendOTP) overwrites the pending one with a new code, a fresh         *)
(* 10-minute expiry and an attempt count of zero, so a code of an earlier  *)
(* issuance is accepted by verifyOTP only if it equals the new code.       *)

C16_IssueOverwrites ==
    [][(/\ TfUsable("u1")
        /\ ~isLocked(users["u1"])
        /\ TfLogin \/ sendOTP("u1@x.com"))
       => /\ twoFactor'["u1"].tempOTP.code \in OtpCodes
          /\ twoFactor'["u1"].tempOTP.expiresAt = now + OtpTTL
          /\ twoFactor'["u1"].tempOTP.attempts = 0
          /\ hist'.overwritten["u1"] = twoFactor["u1"].tempOTP.code
          /\ \A code \in OtpCodes :
                verifyOTP(twoFactor'["u1"], code).ok
                    <=> code = twoFactor'["u1"].tempOTP.code]_vars

\* a pending OTP was overwritten by another code
C16_WitnessOverwritten ==
    /\ resp.op = "sendOTP"
    /\ resp.kind = "otp_sent"
    /\ hist.overwritten["u1"] \in OtpCodes
    /\ hist.overwritten["u1"] # twoFactor["u1"].tempOTP.code
    /\ twoFactor["u1"].tempOTP.attempts = 0
    /\ twoFactor["u1"].tempOTP.expiresAt = now + OtpTTL
    /\ ~verifyOTP(twoFactor["u1"], hist.overwritten["u1"]).ok

(* C17: blacklistToken is idempotent: calling it again for a token that   *)
(* is already blacklisted reports success, leaves exactly one blacklist    *)
(* entry for that token, and keeps the entry's original user, reason and   *)
(* expiry.                                                                 *)

C17_OneEntryPerToken ==
    \A a \in blacklist, b \in blacklist : a.token = b.token => a = b

C17_SecondCall ==
    \A tok \in BlTokens, u \in UserIds, reason \in BlReasons :
        \A expiresAt \in {NoDate, getTokenExpiry(tok)} :
            (isBlacklisted(blacklist, tok) /\ BlCall(tok, u, reason, expiresAt))
            => /\ blacklist' = blacklist
               /\ reason \in BlacklistReasons => resp'.kind = "true"

C18_ForceStep ==
    \A adminTok \in SessionTokens, userId \in UserIds :
        (forceLogoutUser(adminTok, userId) /\ resp'.status = 200)
        => \A s \in sessions :
              (s.userId = userId /\ s.isActive)
              => /\ \E t \in sessions' : /\ t.token = s.token
                                          /\ ~t.isActive
                                          /\ t.logoutReason = "forced"
                 /\ ~\E t \in sessions' : t.token = s.token /\ t.isActive
                 /\ isBlacklisted(blacklist', s.token)

C18_LaterRejected ==
    \A tok \in hist.forced : Request(tok) => resp'.status = 401

C18_ForcedLogout == [][C18_ForceStep /\ C18_LaterRejected]_vars

\* the admin logged another user out of two sessions, and a request with one of
\* the two tokens was refused
C18_WitnessForcedOut ==
    /\ resp.op = "request"
    /\ resp.status = 401
    /\ resp.token \in hist.forced
    /\ resp.token.id = "u1"
    /\ Cardinality({t \in hist.forced : t.id = "u1"}) >= 2
    /\ \E s \in sessions : s.token = resp.token /\ ~s.isActive /\ s.logoutReason = "forced"

(* C19: a password login that fails returns a response of the same shape  *)
(* (same status, same set of fields) whether the email belongs to no user  *)
(* or to an existing, unlocked user whose password was wrong.              *)

C19_SameFailureShape ==
    [][\A email \in Emails, password \in Passwords :
          (/\ findUserByEmail(email) # NoUser
           /\ ~isLocked(users[findUserByEmail(email)])
           /\ ~matchPassword(users[findUserByEmail(email)], password)
           /\ login(email, password, LgMaxIssued))
          => /\ resp'.status = Resp("login", 401, "invalid_credentials").status
             /\ LoginFailureFields(resp')
                    = LoginFailureFields(Resp("login", 401, "invalid_credentials"))]_vars

(* C20: after every wrong-password login attempt on an account that is not *)
(* currently locked, the reported remainingAttempts equals max(0, 5 minus  *)
(* the failure counter stored after that attempt), including the first     *)
(* wrong attempt after an earlier lock window has elapsed.                 *)

C20_RemainingMatchesCounter ==
    [][\A email \in Emails, password \in Passwords :
          LET u == findUserByEmail(email) IN
          (/\ u # NoUser
           /\ ~isLocked(users[u])
           /\ ~matchPassword(users[u], password)
           /\ login(email, password, LgMaxIssued))
          => resp'.n = IF MaxAttempts - users'[u].loginAttempts > 0
                       THEN MaxAttempts - users'[u].loginAttempts ELSE 0]_vars

(* C21: for concurrent logins of one user, under every interleaving of    *)
(* their createSession and enforceConcurrentLimit steps (the find and the  *)
(* updateMany of each pass being separate round-trips): once every         *)
(* in-flight login has finished its eviction pass, the user has at most 3  *)
(* active unexpired sessions.                                              *)

C21_CapAfterPasses ==
    (\A r \in DOMAIN reqs : reqs[r].op # "login")
    => \A u \in UserIds : Cardinality(ActiveSessions(sessions, u)) <= MaxSessionsPerUser

\* two logins overlapped: the pass that finished last had found five active
\* sessions and evicted two
C21_WitnessBothPassed ==
    /\ reqs = <<>>
    /\ resp.op = "login"
    /\ resp.status = 200
    /\ resp.n = 2
    /\ Cardinality({s \in sessions : s.userId = "u1"}) = MaxSessionsPerUser + 2

(* C22: when several verifyOTP requests for the same user's pending OTP   *)
(* run concurrently (each loads the TwoFactor document, calls verifyOTP on  *)
(* its copy and saves), the stored attempt count ends up equal to the      *)
(* number of comparisons performed, so no interleaving lets more than 5    *)
(* guesses be compared against one issued OTP.                             *)

C22_ConcurrentAttemptsCounted ==
    /\ hist.compared["u1"] <= OtpMaxAttempts
    /\ (reqs = <<>> /\ twoFactor["u1"].tempOTP.code # "none")
         => twoFactor["u1"].tempOTP.attempts = hist.compared["u1"]

(* C23: one issued OTP completes at most one login: after a loginWith2FA   *)
(* or verifyOTP request has accepted the code the pending OTP is cleared,  *)
(* and no other request, sequential or concurrent with the first, is       *)
(* accepted with that same issued code.                                    *)

C23_AcceptedStep ==
    \A r \in ReqIds :
        (/\ r \in DOMAIN reqs
         /\ verifyOTPFinish(r) \/ loginWith2FAFinishOTP(r, RoMaxIssued)
         /\ verifyOTP(reqs[r].doc, reqs[r].code).ok)
        => /\ OtpOf(reqs[r].user, reqs[r].doc) \notin hist.accepted
           /\ twoFactor'[reqs[r].user].tempOTP.code = "none"

C23_OtpUsedOnce == [][C23_AcceptedStep]_vars

(* C24: in every configuration the refresh token is signed with a key     *)
(* different from the access-token key, so a refresh token presented as a  *)
(* Bearer access token never passes the signature check in protect and is  *)
(* never honoured as an access credential.                                 *)

C24_DistinctKey ==
    \A tok \in issued : tok.typ = "refresh" => tok.key # generateToken(tok.id).key

C24_RefreshRefused ==
    \A tok \in issued : (tok.typ = "refresh" /\ Request(tok)) => resp'.status = 401

C24_RefreshNotAccess == [] C24_DistinctKey /\ [][C24_RefreshRefused]_vars

(* C25: a user has at most one stored registration challenge after        *)
(* generateRegistrationOptions returns (stale ones are deleted before the  *)
(* new one is stored), and verifyRegistration deletes the stored challenge *)
(* on every outcome that got as far as finding it (the verification        *)
(* throws, reports not verified, or succeeds), so the same registration    *)
(* challenge is never verified against twice.                              *)

C25_OnePerUser ==
    /\ \A u \in UserIds : Cardinality(RegistrationChallenges(u)) <= 1
    /\ \A c \in DOMAIN hist.passes : hist.passes[c] <= 1

C25_VerifyDeletes ==
    \A tok \in SessionTokens, response \in RegistrationResponses :
        (/\ protectKind(tok) = "next"
         /\ findRegistrationChallenge(tok.id) # {}
         /\ verifyRegistration(tok, response))
        => /\ findRegistrationChallenge(tok.id) \cap challenges' = {}
           /\ RegistrationChallenges(tok.id) \cap challenges' = {}

C27_NeverReactivated ==
    [][\A s \in sessions :
          ~s.isActive
          => \A t \in sessions' : t.refreshToken = s.refreshToken => ~t.isActive]_vars

(* C28: in every reachable state, including states reached by concurrent  *)
(* wrong-password logins of one user (each reading loginAttempts and then  *)
(* issuing its own update), a stored loginAttempts of 5 or more implies    *)
(* that lockUntil is set, so a correct password never logs in to an        *)
(* account whose counter has reached the threshold without a lock.         *)

C28_ThresholdImpliesLock ==
    \A u \in UserIds : users[u].loginAttempts >= MaxAttempts => users[u].lockUntil # NoDate

(* C29: for a user with 2FA enabled, every session created by             *)
(* loginWith2FA is preceded, in the same login attempt, by a successful    *)
(* password verification for that user made while the account was not      *)
(* locked: no sequence of public requests (sendOTP, loginWith2FA with an   *)
(* OTP or a backup code) obtains tokens without the password step, or      *)
(* while lockUntil is in the future.                                       *)

C29_SessionBy2FA ==
    resp'.op = "loginWith2FA" /\ resp'.status = 200 /\ sessions' # sessions

C29_PasswordStepFirst ==
    [][C29_SessionBy2FA
         => hist.passwordOk[resp'.user] /\ ~isLocked(users[resp'.user])]_vars

(* C30: after logout (or logoutSession) of a session completes, that      *)
(* session's refresh token can no longer mint access tokens: every later   *)
(* refreshToken call with it fails, and the logged-out access token is in  *)
(* the blacklist with an expiry not earlier than the token's own expiry,   *)
(* so protect rejects it for the rest of its natural lifetime.             *)

\* the sessions that logout or logoutSession has ended
LoggedOut(sess) == {s \in sess : ~s.isActive /\ s.logoutReason = "manual"}

\* the session an access token was minted for: the one that holds it, and for
\* a token rotated out by a refresh the only session its user ever opened
\* (tokens carry no session id)
C30_SessionsOf(tok) ==
    {s \in sessions :
        \/ s.token = tok
        \/ /\ s.userId = tok.id
           /\ Cardinality({rt \in issued : rt.typ = "refresh" /\ rt.id = tok.id}) = 1}

C30_Ended(ended, t) ==
    /\ \A s \in ended :
          \A x \in sessions' : x.refreshToken = s.refreshToken => x \in LoggedOut(sessions')
    /\ \E b \in blacklist' : b.token = t /\ b.expiresAt >= t.exp

C30_LogoutStep ==
    /\ \A tok \in Presentable :
          logout(tok) /\ resp'.status = 200 /\ tok.typ = "access"
              => C30_Ended(C30_SessionsOf(tok), tok)
    /\ \A tok \in SessionTokens, sid \in SessionIds :
          logoutSession(tok, sid) /\ resp'.status = 200
              => C30_Ended(findById(sessions, sid), resp'.token)

C30_StaysEnded ==
    /\ \A s \in LoggedOut(sessions) :
          /\ \A t \in sessions' : t.refreshToken = s.refreshToken => t \in LoggedOut(sessions')
          /\ refreshToken(s.refreshToken, LoMaxIssued) => resp'.status = 401 /\ issued' = issued
    /\ \A b \in blacklist : b.reason = "logout" /\ now' < b.token.exp => b \in blacklist'

C30_TokenRejected ==
    \A b \in blacklist : b.reason = "logout" => protectKind(b.token) # "next"

C30_LogoutIsFinal == []C30_TokenRejected /\ [][C30_LogoutStep /\ C30_StaysEnded]_vars

=============================================================================
